---- MODULE Spec2Model ----
(***************************************************************************)
(* A model of the perception-action-orchestration loop of chrome-use:      *)
(*   - the conversation context manager (MessageManager / MessageHistory), *)
(*   - the decision parsers (AgentService.parseActionFromLLM and           *)
(*     AgentGraph.parseAction),                                            *)
(*   - the in-page action executor (ActionController),                     *)
(*   - the content script's action queue (handleAction) and its debounced  *)
(*     mutation observer (setupDomObserver),                               *)
(*   - the orchestrator's message handlers (handleDomState, ...),          *)
(*   - the background script's transport channel (connectToServer, ...),   *)
(*   - the DOM builder (DOMBuilder.build) and the executor's resolver.     *)
(* Strings are modelled by their length where only the length is read      *)
(* (token estimates) and by their presence where only truthiness is read.  *)
(***************************************************************************)
EXTENDS Integers, Sequences, FiniteSets, TLC

VARIABLES
    mm,          \* the MessageManager of the current agent (or NoMM)
    added,       \* context spec: the kinds of the additions made so far
    parseIn,     \* parser spec: the decision text handed to the parsers
    parseOut,    \* parser spec: what each parser returned for parseIn
    doc,         \* executor spec: the target element and the effects on it
    execIn,      \* executor spec: the action given to executeAction and the
                 \* circumstances of the call
    execOut,     \* executor spec: the result executeAction returned
    cs,          \* content script state (isProcessing, queue, timers)
    srv,         \* orchestrator: clientState, agent state, calls in flight
    out,         \* orchestrator: messages sent by the last handler step
    bg,          \* background script: socket, reconnect counter and timers
    dom          \* DOM builder: the page, the builder and its snapshots

vars == <<mm, added, parseIn, parseOut, doc, execIn, execOut, cs, srv, out,
          bg, dom>>

ctxVars == <<mm, added>>
parseVars == <<parseIn, parseOut>>
execVars == <<doc, execIn, execOut>>
csVars == <<cs>>
srvVars == <<srv, out>>
bgVars == <<bg>>
domVars == <<dom>>

None == "none"

(***************************************************************************)
(* Bounds of the model.                                                    *)
(***************************************************************************)
MaxAdds == 4
MaxQueue == 2
MaxEvents == 5
MaxTasks == 2
XPathLen == 10
GoalStrLen == 5

(***************************************************************************)
(* Program constants.                                                      *)
(***************************************************************************)
DefaultMaxTokens == 8000
CharsPerToken == 4
SystemContentLen == 1578
TaskPrefixLen == 16
StatePrefixLen == 53
NavPrefixLen == 35
CompletedPrefixLen == 18
FailedPrefixLen == 15
SuccessLen == 7
UnknownErrorLen == 13
SummaryHeaderLen == 18
UndefinedLen == 9

(***************************************************************************)
(* The action vocabulary.                                                  *)
(***************************************************************************)
Vocabulary ==
    {"click_element", "input_text", "extract_content", "scroll", "wait", "done"}

TypeLen(type) ==
    CASE type = "click_element" -> 13
      [] type = "input_text" -> 10
      [] type = "extract_content" -> 15
      [] type = "scroll" -> 6
      [] type = "wait" -> 4
      [] type = "done" -> 4
      [] type = "error" -> 5
      [] OTHER -> 9

(***************************************************************************)
(* An action is a record                                                   *)
(*   [type, xpath, index, hasText, text, goal, direction, success]         *)
(* xpath and index are None (absent), "hit" (resolves to the element) or   *)
(* "miss" (resolves to nothing); text is a sequence of characters, read    *)
(* only when hasText; goal and direction are None or the string; success   *)
(* is the flag a done action carries: "true", "false" or None (absent).    *)
(***************************************************************************)
Action(type, xpath, index, hasText, text) ==
    [type |-> type, xpath |-> xpath, index |-> index, hasText |-> hasText,
     text |-> text, goal |-> None, direction |-> None, success |-> None,
     hasSeconds |-> FALSE, seconds |-> 0]

NoAction == Action(None, None, None, FALSE, <<>>)

\* the length of a template-interpolated field: an absent one prints "undefined"
TextLen(a) == IF a.hasText THEN Len(a.text) ELSE UndefinedLen
GoalLen(a) == IF a.goal = None THEN UndefinedLen ELSE GoalStrLen
DirectionLen(a) ==
    IF a.direction = None THEN UndefinedLen
    ELSE IF a.direction = "down" THEN 4 ELSE 2

(***************************************************************************)
(* Conversation context: MessageHistory (views.js).                        *)
(* A history is [messages, currentTokens]; an entry of messages is         *)
(* [role, kind, tokens, timestamp], kind naming what the content is.       *)
(***************************************************************************)
MessageHistory == [messages |-> <<>>, currentTokens |-> 0]

HistoryAddMessage(h, message, tokens) ==
    [messages |-> Append(h.messages,
                         [role |-> message.role, kind |-> message.kind,
                          tokens |-> tokens, timestamp |-> message.timestamp]),
     currentTokens |-> h.currentTokens + tokens]

getTotalTokens(h) == h.currentTokens

getMessages(h) == [i \in 1..Len(h.messages) |->
                     [role |-> h.messages[i].role, kind |-> h.messages[i].kind,
                      timestamp |-> h.messages[i].timestamp]]

\* the first index whose role is not 'system', 0 when there is none
FirstNonSystem(messages) ==
    LET S == {i \in 1..Len(messages) : messages[i].role # "system"}
    IN IF S = {} THEN 0 ELSE CHOOSE i \in S : \A j \in S : i <= j

RemoveAt(s, i) == [j \in 1..(Len(s) - 1) |-> IF j < i THEN s[j] ELSE s[j + 1]]

\* a trim that removes the entry and leaves the running cost as it was
trimIfNeededNoDebit(h, maxTokens) ==
    IF h.currentTokens <= maxTokens
    THEN [h |-> h, trimmed |-> FALSE]
    ELSE LET indexToRemove == FirstNonSystem(h.messages)
         IN IF indexToRemove > 0
            THEN [h |-> [messages |-> RemoveAt(h.messages, indexToRemove),
                         currentTokens |-> h.currentTokens],
                  trimmed |-> TRUE]
            ELSE [h |-> h, trimmed |-> FALSE]

\* trimIfNeeded returns [h, trimmed]
trimIfNeeded(h, maxTokens) ==
    IF h.currentTokens <= maxTokens
    THEN [h |-> h, trimmed |-> FALSE]
    ELSE LET indexToRemove == FirstNonSystem(h.messages)
         IN IF indexToRemove > 0
            THEN [h |-> [messages |-> RemoveAt(h.messages, indexToRemove),
                         currentTokens |-> h.currentTokens
                                            - h.messages[indexToRemove].tokens],
                  trimmed |-> TRUE]
            ELSE [h |-> h, trimmed |-> FALSE]

(***************************************************************************)
(* Conversation context: MessageManager (message-manager/service).         *)
(* A manager is [history, maxTokens, actionHistory, taskLen, clock].       *)
(***************************************************************************)
estimateTokens(len) == (len + CharsPerToken - 1) \div CharsPerToken

RECURSIVE TrimLoop(_, _)
TrimLoop(h, maxTokens) ==
    IF getTotalTokens(h) > maxTokens
    THEN LET r == trimIfNeeded(h, maxTokens)
         IN IF r.trimmed THEN TrimLoop(r.h, maxTokens) ELSE r.h
    ELSE h

\* message is [role, kind, len]
addMessage(m, message) ==
    LET tokenEstimate == estimateTokens(message.len)
        h1 == HistoryAddMessage(m.history,
                                [role |-> message.role, kind |-> message.kind,
                                 timestamp |-> m.clock + 1],
                                tokenEstimate)
    IN [m EXCEPT !.history = TrimLoop(h1, m.maxTokens), !.clock = m.clock + 1]

addSystemMessage(m) ==
    addMessage(m, [role |-> "system", kind |-> "instruction",
                   len |-> SystemContentLen])

addTaskMessage(m) ==
    addMessage(m, [role |-> "user", kind |-> "task",
                   len |-> TaskPrefixLen + m.taskLen])

\* new MessageManager(task, options): optMaxTokens = 0 stands for an absent
\* (or zero) options.maxTokens
NewMessageManager(taskLen, optMaxTokens) ==
    addTaskMessage(addSystemMessage(
        [history |-> MessageHistory,
         maxTokens |-> IF optMaxTokens # 0 THEN optMaxTokens ELSE DefaultMaxTokens,
         actionHistory |-> <<>>,
         taskLen |-> taskLen,
         clock |-> 0]))

Digits(n) == IF n < 10 THEN 1 ELSE 2

\* the length of one line of generateActionSummary
SummaryLineLen(i, entry) ==
    LET a == entry.action
        head == 5 + Digits(i) + 2 + TypeLen(a.type)
        detail ==
            IF a.type = "click_element" /\ a.xpath # None
            THEN 14 + XPathLen
            ELSE IF a.type = "input_text" /\ a.xpath # None
            THEN 14 + XPathLen + 13 + TextLen(a)
            ELSE IF a.type = "extract_content" THEN 13 + GoalLen(a)
            ELSE IF a.type = "scroll" THEN 1 + DirectionLen(a)
            ELSE 0
        outcome == IF entry.success THEN 12 ELSE 9
    IN head + detail + outcome

RECURSIVE SummaryLinesLen(_, _)
SummaryLinesLen(ah, i) ==
    IF i > Len(ah) THEN 0 ELSE SummaryLineLen(i, ah[i]) + SummaryLinesLen(ah, i + 1)

\* the length of the summary, 0 for the empty string
generateActionSummary(m) ==
    IF Len(m.actionHistory) = 0 THEN 0
    ELSE SummaryHeaderLen + SummaryLinesLen(m.actionHistory, 1)

formatStateMessage(m, state) ==
    StatePrefixLen + m.taskLen + state.urlLen + state.titleLen + state.elementsLen

addStateMessage(m, state) ==
    LET summary == generateActionSummary(m)
        m1 == IF summary # 0
              THEN addMessage(m, [role |-> "system", kind |-> "summary",
                                  len |-> summary])
              ELSE m
    IN addMessage(m1, [role |-> "user", kind |-> "state",
                       len |-> formatStateMessage(m, state)])

addActionToHistory(m, action, result) ==
    [m EXCEPT !.actionHistory =
        Append(@, [action |-> action, success |-> result.success])]

\* result is [success, messageLen, errorLen, action, ...]; a length of 0 is an
\* absent (or empty) string, an action of NoAction an absent (null) action
addActionResultMessage(m, result) ==
    LET len == IF result.success
               THEN CompletedPrefixLen
                    + (IF result.messageLen # 0 THEN result.messageLen
                       ELSE SuccessLen)
               ELSE FailedPrefixLen
                    + (IF result.errorLen # 0 THEN result.errorLen
                       ELSE UnknownErrorLen)
        m1 == addMessage(m, [role |-> "system", kind |-> "result", len |-> len])
    IN IF result.action # NoAction
       THEN addActionToHistory(m1, result.action, result)
       ELSE m1

addNavigationMessage(m, urlLen) ==
    addMessage(m, [role |-> "system", kind |-> "navigation",
                   len |-> NavPrefixLen + urlLen])

(***************************************************************************)
(* Decision texts.  A text is                                              *)
(*   [fence, closed, newlines, around, keyword, payload]                   *)
(* fence: "json" when the text holds ```json, "plain" when it holds another*)
(* ```, None otherwise; closed: a second ``` follows; newlines: the fences *)
(* sit on lines of their own; around: prose surrounds the payload;         *)
(* keyword: the first heuristic keyword the prose holds (None, "click",    *)
(* "type", "scroll", "done").  The payload is [syntax, shape, hasAction,   *)
(* hasState, action]: syntax is "empty", "prose" (no braces), "badjson"    *)
(* (braces, not JSON) or "json"; a JSON payload is "null", a "scalar", a   *)
(* "flat" object (the action's own fields at top level) or a "nested"      *)
(* object {current_state, action} either of which may be missing.          *)
(***************************************************************************)
JsonParses(payload) == payload.syntax = "json"

\* JSON.parse of the whole response: only an unfenced, unsurrounded JSON text
WholeParses(text) ==
    text.fence = None /\ ~text.around /\ JsonParses(text.payload)

ParseError == Action("error", None, None, FALSE, <<>>)

FailedDone == [Action("done", None, None, FALSE, <<>>) EXCEPT !.success = "false"]

\* AgentService.parseActionFromLLM
parseActionFromLLM(response) ==
    LET \* the regular expression matched and its group is not empty
        extracted ==
            /\ response.fence # None
            /\ response.closed
            /\ (response.fence = "json" => response.newlines)
            /\ response.payload.syntax # "empty"
        parses == IF extracted THEN JsonParses(response.payload)
                  ELSE WholeParses(response)
        parsed == response.payload
    IN IF ~parses THEN ParseError
       ELSE IF parsed.shape = "null" THEN ParseError
       ELSE IF parsed.shape # "nested" \/ ~parsed.hasAction \/ ~parsed.hasState
       THEN ParseError
       ELSE LET actionModel == parsed.action
            IN IF /\ actionModel.type \in {"click_element", "input_text"}
                  /\ actionModel.xpath = None
                  /\ actionModel.index = None
               THEN ParseError
               ELSE actionModel

\* the action the keyword heuristics of AgentGraph.parseAction infer; the
\* keyword is the first of the chain click, type, scroll, done the text holds
InferFromText(keyword) ==
    IF keyword = "click" THEN Action("click", None, "hit", FALSE, <<>>)
    ELSE IF keyword = "type" THEN Action("input", None, "hit", TRUE, <<>>)
    ELSE IF keyword \in {"scroll", "scroll_down"}
    THEN [Action("scroll", None, None, FALSE, <<>>) EXCEPT
             !.direction = IF keyword = "scroll_down" THEN "down" ELSE "up"]
    ELSE IF keyword \in {"done", "done_success"}
    THEN [Action("done", None, None, FALSE, <<>>) EXCEPT
             !.success = IF keyword = "done_success" THEN "true" ELSE "false"]
    ELSE FailedDone

\* AgentGraph.parseAction
parseAction(thinkingOutput) ==
    LET t == thinkingOutput
        p == t.payload
        m1 == t.fence = "json" /\ t.closed /\ t.newlines
        m2 == t.fence # None /\ t.closed
        m3 == \/ p.syntax = "badjson"
              \/ p.syntax = "json" /\ p.shape \in {"flat", "nested"}
        \* what JSON.parse is given parses
        parses ==
            IF m1 THEN JsonParses(p)
            ELSE IF m2 THEN t.fence = "plain" /\ JsonParses(p)
            ELSE p.syntax = "json" /\ p.shape = "flat"
    IN IF m1 \/ m2 \/ m3
       THEN IF ~parses THEN FailedDone
            ELSE IF p.shape # "flat" \/ p.action.type = None THEN FailedDone
            ELSE p.action
       ELSE InferFromText(t.keyword)

(***************************************************************************)
(* The action executor (ActionController).  The document holds one target  *)
(* element: doc = [tag, value, focused, effects, lookups, waited].  tag is  *)
(* "INPUT" (a form control), "EDITABLE" (a contentEditable region) or      *)
(* "OTHER"; effects is the sequence of interactions the current            *)
(* executeAction call has performed on the document, lookups the number of *)
(* times it has resolved a locator and waited the milliseconds its wait    *)
(* has paused.  A result is                                                *)
(*   [success, isComplete, taskSuccess, hasMessage, hasError,              *)
(*    hasFinalMessage, finalMessage]                                       *)
(***************************************************************************)
Result(success) ==
    [success |-> success, isComplete |-> FALSE, taskSuccess |-> None,
     hasMessage |-> success, hasError |-> ~success,
     hasFinalMessage |-> FALSE, finalMessage |-> <<>>]

Do(d, effect) == [d EXCEPT !.effects = Append(@, effect)]

Holds(d) == d.tag \in {"INPUT", "EDITABLE"}

\* one resolution of a locator: _findElementByXPath(xpath) / selectorMap[index]
Lookup(d) == [d EXCEPT !.lookups = @ + 1]

\* the activation tiers, each one attempted whatever the one before did
ClickTiersAll(d, throws) ==
    Do(Do(Do(Do(d, "click"), "dispatchClick"), "mousedown"), "mouseup")

\* the three activation tiers; throws is the number of leading tiers that raise
ClickTiers(d, throws) ==
    LET d1 == Do(d, "click")
        d2 == IF throws >= 1 THEN Do(d1, "dispatchClick") ELSE d1
        d3 == IF throws >= 2 THEN Do(d2, "mousedown") ELSE d2
        d4 == IF throws = 2 THEN Do(d3, "mouseup") ELSE d3
    IN d4

\* a click that scrolls to and activates whatever the resolver returned
clickElementUnchecked(d, target, throws) ==
    [doc |-> ClickTiers(Do(Lookup(d), "scrollIntoView"), throws),
     result |-> Result(target = "hit" /\ throws < 3)]

\* clickElementByXPath / clickElement; target is what the locator resolves to
clickElement(d, target, throws) ==
    IF target # "hit"
    THEN [doc |-> Lookup(d), result |-> Result(FALSE)]
    ELSE [doc |-> ClickTiers(Do(Lookup(d), "scrollIntoView"), throws),
          result |-> Result(throws < 3)]

RECURSIVE TypeChars(_, _, _)
TypeChars(d, text, i) ==
    IF i > Len(text) THEN d
    ELSE LET d1 == IF Holds(d)
                   THEN [Do(d, "append") EXCEPT !.value = Append(@, text[i])]
                   ELSE d
         IN TypeChars(Do(d1, "input"), text, i + 1)

\* input-text that types after whatever the element already holds
inputTextNoClear(d, target, hasText, text) ==
    IF target # "hit"
    THEN [doc |-> Lookup(d), result |-> Result(FALSE)]
    ELSE LET d1 == [Do(Lookup(d), "focus") EXCEPT !.focused = TRUE]
         IN IF ~hasText
            THEN [doc |-> d1, result |-> Result(FALSE)]
            ELSE [doc |-> Do(TypeChars(d1, text, 1), "change"),
                  result |-> Result(TRUE)]

\* inputTextByXPath / inputText; target is what the locator resolves to
inputText(d, target, hasText, text) ==
    IF target # "hit"
    THEN [doc |-> Lookup(d), result |-> Result(FALSE)]
    ELSE LET d1 == [Do(Lookup(d), "focus") EXCEPT !.focused = TRUE]
             d2 == IF Holds(d1) THEN [Do(d1, "clear") EXCEPT !.value = <<>>]
                   ELSE d1
         IN IF ~hasText
            THEN \* for (const char of undefined) raises
                 [doc |-> d2, result |-> Result(FALSE)]
            ELSE [doc |-> Do(TypeChars(d2, text, 1), "change"),
                  result |-> Result(TRUE)]

extractContent(d, goal) ==
    IF goal = None
    THEN [doc |-> d, result |-> Result(FALSE)]
    ELSE [doc |-> d, result |-> Result(TRUE)]

scroll(d, direction) == [doc |-> Do(d, "scrollBy"), result |-> Result(TRUE)]

Min(a, b) == IF a < b THEN a ELSE b
Max(a, b) == IF a > b THEN a ELSE b

\* wait(seconds): const ms = Math.max(100, Math.min(30000, seconds * 1000))
wait(d, seconds) ==
    LET ms == Max(100, Min(30000, seconds * 1000))
    IN [doc |-> [d EXCEPT !.waited = @ + ms], result |-> Result(TRUE)]

\* done reporting the carried flag as the executor-level outcome
doneFlagAsSuccess(d, hasText, text, success) ==
    [doc |-> d,
     result |-> [Result(success # "false") EXCEPT
                    !.isComplete = TRUE,
                    !.hasFinalMessage = hasText,
                    !.finalMessage = IF hasText THEN text ELSE <<>>,
                    !.taskSuccess = IF success = None THEN "true" ELSE success]]

\* done(text, success = true); hasText: text is not undefined
done(d, hasText, text, success) ==
    [doc |-> d,
     result |-> [Result(TRUE) EXCEPT
                    !.isComplete = TRUE,
                    !.hasFinalMessage = hasText,
                    !.finalMessage = IF hasText THEN text ELSE <<>>,
                    !.taskSuccess = IF success = None THEN "true" ELSE success]]

\* executeAction returns [doc, result]
executeAction(d, action, throws) ==
    IF action.type = "click_element"
    THEN IF action.xpath # None THEN clickElement(d, action.xpath, throws)
         ELSE IF action.index # None THEN clickElement(d, action.index, throws)
         ELSE [doc |-> d, result |-> Result(FALSE)]
    ELSE IF action.type = "input_text"
    THEN IF action.xpath # None
         THEN inputText(d, action.xpath, action.hasText, action.text)
         ELSE IF action.index # None
         THEN inputText(d, action.index, action.hasText, action.text)
         ELSE [doc |-> d, result |-> Result(FALSE)]
    ELSE IF action.type = "extract_content" THEN extractContent(d, action.goal)
    ELSE IF action.type = "scroll" THEN scroll(d, action.direction)
    ELSE IF action.type = "wait"
    THEN \* action.seconds || 1: undefined and 0 are both falsy
         wait(d, IF ~action.hasSeconds \/ action.seconds = 0 THEN 1
                 ELSE action.seconds)
    ELSE IF action.type = "done"
    THEN done(d, action.hasText, action.text, action.success)
    ELSE [doc |-> d, result |-> Result(FALSE)]

(***************************************************************************)
(* The content script.  c = [isProcessing, pendingActionQueue, executing,  *)
(* settleTimers, domUpdateTimeout, domUpdateDue, now, initTimer, sent,     *)
(* built, last]: now is the time in milliseconds, executing is the         *)
(* sequence of actions whose executeAction call has been entered and has   *)
(* not resolved yet, settleTimers the number of pending 300 ms timers,     *)
(* domUpdateTimeout and initTimer whether the debounce timer and the first *)
(* collection's timer are pending, sent the messages the last step handed  *)
(* to the background and built the calls of domBuilder.build() it made,    *)
(* each with the value isProcessing had at that moment, last the trigger   *)
(* the last step handled.                                                  *)
(***************************************************************************)
Send(c, type) ==
    [c EXCEPT !.sent = Append(@, [type |-> type, isProcessing |-> c.isProcessing])]

\* the call of domBuilder.build() in collectAndSendDOM
Build(c) == [c EXCEPT !.built = Append(@, c.isProcessing)]

\* collectAndSendDOM without the isProcessing test
collectAndSendDOMUnguarded(c, buildThrows) ==
    IF buildThrows THEN Send(Build(c), "error")
    ELSE Send(Build(c), "domState")

\* collectAndSendDOM; buildThrows: domBuilder.build() raises
collectAndSendDOM(c, buildThrows) ==
    IF c.isProcessing THEN c
    ELSE IF buildThrows THEN Send(Build(c), "error")
    ELSE Send(Build(c), "domState")

\* handleAction without the isProcessing test
handleActionUnguarded(c, action) ==
    [c EXCEPT !.isProcessing = TRUE, !.executing = Append(@, action)]

\* handleAction up to its await: the action is queued, or executeAction is
\* entered
handleAction(c, action) ==
    IF c.isProcessing
    THEN [c EXCEPT !.pendingActionQueue = Append(@, action)]
    ELSE [c EXCEPT !.isProcessing = TRUE, !.executing = Append(@, action)]

\* handleAction after executeAction has resolved, chrome.runtime.sendMessage
\* not raising
handleActionResolved(c) ==
    [Send(c, "actionResult") EXCEPT !.settleTimers = @ + 1]

\* handleAction's catch block, entered when sending the result raised;
\* sendThrows: the catch block's own sendMessage raises too
handleActionCatch(c, sendThrows, buildThrows) ==
    IF sendThrows THEN c
    ELSE collectAndSendDOM([Send(c, "actionResult") EXCEPT !.isProcessing = FALSE],
                           buildThrows)

\* the 300 ms timer's callback
settleCallback(c, buildThrows) ==
    LET c1 == collectAndSendDOM([c EXCEPT !.isProcessing = FALSE], buildThrows)
    IN IF Len(c1.pendingActionQueue) > 0
       THEN handleAction([c1 EXCEPT !.pendingActionQueue = Tail(@)],
                         Head(c1.pendingActionQueue))
       ELSE c1

\* updateConfig
updateConfig(c, buildThrows) ==
    IF ~c.isProcessing THEN collectAndSendDOM(c, buildThrows) ELSE c

\* the delay of the debounce timer, in milliseconds
DebounceMs == 500

\* an observer that leaves a pending timer as it is
onMutationsNoReset(c, significantChanges) ==
    IF significantChanges /\ ~c.isProcessing /\ ~c.domUpdateTimeout
    THEN [c EXCEPT !.domUpdateTimeout = TRUE, !.domUpdateDue = c.now + DebounceMs]
    ELSE c

\* the MutationObserver's callback: clearTimeout, then setTimeout(.., 500);
\* domUpdateDue is the time at which the pending timer expires
onMutations(c, significantChanges) ==
    IF significantChanges /\ ~c.isProcessing
    THEN [c EXCEPT !.domUpdateTimeout = TRUE, !.domUpdateDue = c.now + DebounceMs]
    ELSE c

(***************************************************************************)
(* The orchestrator (server): the handlers of one connection.              *)
(* A world w = [srv, mm, out] holds                                        *)
(*   srv.isExecuting, srv.task, srv.waitingForResult,                      *)
(*   srv.isGeneratingAction, srv.hasLastDomState: the fields of clientState*)
(*     (task is the number of the task, 0 for null),                       *)
(*   srv.agent: the AgentService of clientState.agent, NoAgent for null,   *)
(*     [task, steps, isComplete, finalResult, lastAction, hasLastResult,   *)
(*      currentUrl, pageHistory],                                          *)
(*   srv.calls: the getNextAction calls awaiting the model's answer, each  *)
(*     the number of the task whose agent made it,                         *)
(*   srv.tasks, srv.events: the tasks started and the messages received,   *)
(*   srv.completed: the tasks for which taskComplete has been sent,        *)
(*   srv.completions: the number of taskComplete messages sent,            *)
(*   srv.unanswered: the 'action' messages sent and not answered yet,      *)
(*   srv.unsolicited: an actionResult arrived that answered no action,     *)
(*   srv.last: the message or answer the last step handled,                *)
(*   mm: the MessageManager of srv.agent,                                  *)
(*   out: the messages the last step sent on the socket.                   *)
(***************************************************************************)
NoAgent == [kind |-> None]

NoFinalResult == [kind |-> None]

\* the literals 'Task completed' and 'Task not complete'
TaskCompleted == <<"Task completed">>
TaskNotComplete == <<"Task not complete">>

NewAgent(task) ==
    [task |-> task, steps |-> 0, isComplete |-> FALSE,
     finalResult |-> NoFinalResult, lastAction |-> NoAction,
     hasLastResult |-> FALSE, currentUrl |-> None, pageHistory |-> <<>>]

WsSend(w, message) == [w EXCEPT !.out = Append(@, message)]

\* AgentService.processState
processState(w, domState) ==
    LET a == w.srv.agent
        a1 == IF a.currentUrl # domState.url
              THEN [a EXCEPT
                      !.pageHistory = IF a.currentUrl # None
                                      THEN Append(@, a.currentUrl) ELSE @,
                      !.currentUrl = domState.url]
              ELSE a
    IN [w EXCEPT !.srv.agent = a1,
                 !.mm = addStateMessage(@, domState)]

\* processActionResult reading the completion flag from the message itself
\* (result.isComplete) instead of from its data: it never sees a completion
processActionResultTopLevelFlag(w, result) ==
    LET a == w.srv.agent
        r1 == [success |-> result.success, messageLen |-> result.messageLen,
               errorLen |-> result.errorLen, action |-> a.lastAction]
    IN [w EXCEPT !.srv.agent = [a EXCEPT !.steps = @ + 1, !.hasLastResult = TRUE],
                 !.mm = addActionResultMessage(@, r1)]

\* AgentService.processActionResult
processActionResult(w, result) ==
    LET a == w.srv.agent
        a1 == [a EXCEPT !.steps = @ + 1, !.hasLastResult = TRUE]
        r1 == [success |-> result.success, messageLen |-> result.messageLen,
               errorLen |-> result.errorLen, action |-> a.lastAction]
        a2 == IF result.hasData /\ result.isComplete
              THEN [a1 EXCEPT
                      !.isComplete = TRUE,
                      !.finalResult =
                          [message |-> IF result.hasFinalMessage
                                          /\ result.finalMessage # <<>>
                                       THEN result.finalMessage
                                       ELSE TaskCompleted,
                           success |-> result.taskSuccess # "false"]]
              ELSE a1
    IN [w EXCEPT !.srv.agent = a2,
                 !.mm = addActionResultMessage(@, r1)]

isTaskComplete(a) == a.isComplete

getFinalResult(a) ==
    IF ~isTaskComplete(a)
    THEN [message |-> TaskNotComplete, success |-> FALSE]
    ELSE a.finalResult

\* AgentService.handleNavigation
handleNavigation(w, url) ==
    [w EXCEPT !.srv.agent.pageHistory = Append(@, w.srv.agent.currentUrl),
              !.srv.agent.currentUrl = url.url,
              !.mm = addNavigationMessage(@, url.urlLen)]

\* handleDomState asking for a decision whatever the two flags say
handleDomStateUnguarded(w, data) ==
    LET w0 == [w EXCEPT !.srv.hasLastDomState = TRUE]
    IN IF w0.srv.isExecuting /\ w0.srv.agent # NoAgent
       THEN LET w1 == processState(w0, data)
            IN [w1 EXCEPT !.srv.isGeneratingAction = TRUE,
                          !.srv.calls = Append(@, w1.srv.agent.task)]
       ELSE w0

\* handleDomState up to the await of getNextAction
handleDomState(w, data) ==
    LET w0 == [w EXCEPT !.srv.hasLastDomState = TRUE]
    IN IF w0.srv.isExecuting /\ w0.srv.agent # NoAgent
       THEN LET w1 == processState(w0, data)
            IN IF ~w1.srv.waitingForResult /\ ~w1.srv.isGeneratingAction
               THEN [w1 EXCEPT !.srv.isGeneratingAction = TRUE,
                               !.srv.calls = Append(@, w1.srv.agent.task)]
               ELSE w1
       ELSE w0

\* handleDomState after getNextAction has returned nextAction to the call
\* made for the agent of task
handleDomStateResumed(w, task, nextAction) ==
    LET w1 == IF w.srv.agent # NoAgent /\ w.srv.agent.task = task
              THEN [w EXCEPT !.srv.agent.lastAction = nextAction]
              ELSE w
        w2 == [w1 EXCEPT !.srv.waitingForResult = TRUE]
        w3 == WsSend(w2, [type |-> "action", action |-> nextAction, task |-> task])
    IN [w3 EXCEPT !.srv.isGeneratingAction = FALSE]

\* a failed request that leaves the generating flag set
handleDomStateThrownKeepsFlag(w) == WsSend(w, [type |-> "error"])

\* handleDomState after getNextAction has thrown
handleDomStateThrown(w) ==
    WsSend([w EXCEPT !.srv.isGeneratingAction = FALSE], [type |-> "error"])

\* handleActionResult leaving the execution state as it is on completion
handleActionResultKeepsTask(w, data) ==
    LET w0 == [w EXCEPT !.srv.waitingForResult = FALSE]
    IN IF ~w0.srv.isExecuting \/ w0.srv.agent = NoAgent
       THEN w0
       ELSE LET w1 == processActionResult(w0, data)
            IN IF isTaskComplete(w1.srv.agent)
               THEN LET finalResult == getFinalResult(w1.srv.agent)
                        w2 == WsSend(w1, [type |-> "taskComplete",
                                          task |-> w1.srv.task,
                                          result |-> finalResult.message,
                                          success |-> finalResult.success])
                    IN [w2 EXCEPT !.srv.completed = @ \cup {w1.srv.task}]
               ELSE WsSend(w1, [type |-> "requestDOM"])

\* handleActionResult
handleActionResult(w, data) ==
    LET w0 == [w EXCEPT !.srv.waitingForResult = FALSE]
    IN IF ~w0.srv.isExecuting \/ w0.srv.agent = NoAgent
       THEN w0
       ELSE LET w1 == processActionResult(w0, data)
            IN IF isTaskComplete(w1.srv.agent)
               THEN LET finalResult == getFinalResult(w1.srv.agent)
                        w2 == WsSend(w1, [type |-> "taskComplete",
                                          task |-> w1.srv.task,
                                          result |-> finalResult.message,
                                          success |-> finalResult.success])
                    IN [w2 EXCEPT !.srv.isExecuting = FALSE,
                                  !.srv.completed = @ \cup {w1.srv.task},
                                  !.srv.task = 0]
               ELSE WsSend(w1, [type |-> "requestDOM"])

\* handleExecuteTask; task is the number the new task gets
handleExecuteTask(w, task, taskLen) ==
    IF w.srv.isExecuting
    THEN WsSend(w, [type |-> "error"])
    ELSE WsSend([w EXCEPT !.mm = NewMessageManager(taskLen, 0),
                          !.srv.agent = NewAgent(task),
                          !.srv.isExecuting = TRUE,
                          !.srv.task = task,
                          !.srv.tasks = task,
                          !.srv.waitingForResult = FALSE,
                          !.srv.isGeneratingAction = FALSE],
                [type |-> "requestDOM"])

\* a page unload that also asks the page for a new observation
handlePageUnloadRequesting(w, data) ==
    IF w.srv.isExecuting /\ w.srv.agent # NoAgent
    THEN WsSend(handleNavigation(w, data), [type |-> "requestDOM"])
    ELSE w

\* handlePageUnload
handlePageUnload(w, data) ==
    IF w.srv.isExecuting /\ w.srv.agent # NoAgent
    THEN handleNavigation(w, data)
    ELSE w

\* the message handler's case 'error': the error is logged
handleError(w) == w

IdleMM == [kind |-> None]
IdleParse == [kind |-> None]
IdleDoc == [kind |-> None]
IdleCs == [kind |-> None]
IdleSrv == [kind |-> None]
IdleBg == [kind |-> None]
IdleDom == [kind |-> None]

(***************************************************************************)
(* Specification SpecParse: some decision text is handed to each parser.   *)
(***************************************************************************)
PayloadActions ==
    {[Action(ty, x, i, ht, IF ht THEN <<"a">> ELSE <<>>) EXCEPT
         !.success = IF ty = "done" THEN "true" ELSE None] :
        ty \in {None, "bogus", "click_element", "input_text", "scroll", "done"},
        x \in {None, "hit"}, i \in {None, "hit"}, ht \in BOOLEAN}

NoPayloadAction == NoAction

Payloads ==
    {[syntax |-> sy, shape |-> None, hasAction |-> FALSE, hasState |-> FALSE,
      action |-> NoPayloadAction] : sy \in {"empty", "prose", "badjson"}}
    \cup {[syntax |-> "json", shape |-> sh, hasAction |-> FALSE,
           hasState |-> FALSE, action |-> NoPayloadAction] :
            sh \in {"null", "scalar"}}
    \cup {[syntax |-> "json", shape |-> "flat", hasAction |-> FALSE,
           hasState |-> FALSE, action |-> a] : a \in PayloadActions}
    \cup {[syntax |-> "json", shape |-> "nested", hasAction |-> FALSE,
           hasState |-> hs, action |-> NoPayloadAction] : hs \in BOOLEAN}
    \cup {[syntax |-> "json", shape |-> "nested", hasAction |-> TRUE,
           hasState |-> hs, action |-> a] : hs \in BOOLEAN, a \in PayloadActions}

Keywords == {None, "click", "type", "scroll", "scroll_down", "done", "done_success"}

Fences ==
    {[fence |-> None, closed |-> FALSE, newlines |-> FALSE]}
    \cup {[fence |-> f, closed |-> c, newlines |-> n] :
            f \in {"json", "plain"}, c \in BOOLEAN, n \in BOOLEAN}

\* a fenced text has the fences around its payload
Texts ==
    {[fence |-> f.fence, closed |-> f.closed, newlines |-> f.newlines,
      around |-> ar, keyword |-> k, payload |-> p] :
        f \in Fences, ar \in BOOLEAN, k \in {None, "click"}, p \in Payloads}
    \cup {[fence |-> None, closed |-> FALSE, newlines |-> FALSE,
           around |-> FALSE, keyword |-> k, payload |-> p] :
            k \in Keywords, p \in {q \in Payloads : q.syntax \in {"empty", "prose"}}}

NotParsed == [kind |-> None]

InitParse ==
    /\ parseIn \in Texts
    /\ parseOut = [service |-> NotParsed, graph |-> NotParsed]
    /\ mm = IdleMM /\ added = <<>>
    /\ doc = IdleDoc /\ execIn = NoAction /\ execOut = IdleDoc
    /\ cs = IdleCs
    /\ bg = IdleBg /\ dom = IdleDom
    /\ srv = IdleSrv /\ out = <<>>

ApplyParseActionFromLLM ==
    /\ parseOut.service = NotParsed
    /\ parseOut' = [parseOut EXCEPT !.service = parseActionFromLLM(parseIn)]
    /\ UNCHANGED <<parseIn, ctxVars, execVars, csVars, srvVars, bgVars, domVars>>

ApplyParseAction ==
    /\ parseOut.graph = NotParsed
    /\ parseOut' = [parseOut EXCEPT !.graph = parseAction(parseIn)]
    /\ UNCHANGED <<parseIn, ctxVars, execVars, csVars, srvVars, bgVars, domVars>>

NextParse == ApplyParseActionFromLLM \/ ApplyParseAction

SpecParse == InitParse /\ [][NextParse]_vars

\* a well-formed action of the vocabulary: every required field is present
WellFormed(a) ==
    /\ a.type \in Vocabulary
    /\ a.type = "click_element" => (a.xpath # None \/ a.index # None)
    /\ a.type = "input_text" => ((a.xpath # None \/ a.index # None) /\ a.hasText)
    /\ a.type = "extract_content" => a.goal # None

IsFailingDone(a) == a.type = "done" /\ a.success = "false"

\* C5: whatever the text, each parser returns a well-formed action of the
\* vocabulary or a failing terminal action.
C5_ParsingTotal ==
    /\ parseOut.service # NotParsed =>
          (WellFormed(parseOut.service) \/ IsFailingDone(parseOut.service))
    /\ parseOut.graph # NotParsed =>
          (WellFormed(parseOut.graph) \/ IsFailingDone(parseOut.graph))

\* the text holds a JSON object that is an action: some earlier tier, the
\* fenced block or the bare braces, can yield it
YieldsAction(text) ==
    /\ text.payload.syntax = "json"
    /\ text.payload.shape = "flat"
    /\ text.payload.action.type # None

\* C26: the tiers are tried in order and each falls back to the next: a text
\* holding a JSON action parses to that action, and the keyword heuristics
\* decide the outcome exactly when neither the fenced block nor the bare
\* braces yield one, the failing done action being left for texts on which
\* the heuristics find nothing either.
C26_FallbackPrecedence ==
    parseOut.graph # NotParsed =>
        /\ YieldsAction(parseIn) => parseOut.graph = parseIn.payload.action
        /\ ~YieldsAction(parseIn) => parseOut.graph = InferFromText(parseIn.keyword)

(***************************************************************************)
(* Specification SpecExec: actions are executed one after the other on a   *)
(* document whose element is a form control, an editable region or neither.*)
(***************************************************************************)
Locators == {None, "hit", "miss"}

\* the durations a wait action asks for, in seconds
WaitSeconds == {0 - 1, 0, 1, 2, 30, 31}

ExecTexts == {<<>>, <<"a">>, <<"a", "b">>}

ExecActions ==
    {Action(ty, x, i, TRUE, t) :
        ty \in {"click_element", "input_text"}, x \in Locators, i \in Locators,
        t \in ExecTexts}
    \cup {Action(ty, x, i, FALSE, <<>>) :
            ty \in {"click_element", "input_text"}, x \in Locators, i \in Locators}
    \cup {[Action("extract_content", None, None, FALSE, <<>>) EXCEPT !.goal = g] :
            g \in {None, "title"}}
    \cup {[Action("scroll", None, None, FALSE, <<>>) EXCEPT !.direction = dr] :
            dr \in {None, "up", "down"}}
    \cup {[Action("done", None, None, FALSE, <<>>) EXCEPT !.success = f] :
            f \in {None, "true", "false"}}
    \cup {Action("wait", None, None, FALSE, <<>>), ParseError}
    \cup {[Action("wait", None, None, FALSE, <<>>) EXCEPT
               !.hasSeconds = TRUE, !.seconds = sec] : sec \in WaitSeconds}

Documents ==
    {[tag |-> tg, value |-> v, focused |-> FALSE, effects |-> <<>>,
      lookups |-> 0, waited |-> 0] :
        tg \in {"INPUT", "EDITABLE", "OTHER"}, v \in {<<>>, <<"x">>}}

NoResult == [kind |-> None]

InitExec ==
    /\ doc \in Documents
    /\ execIn = NoAction
    /\ execOut = NoResult
    /\ mm = IdleMM /\ added = <<>>
    /\ parseIn = IdleParse /\ parseOut = IdleParse
    /\ cs = IdleCs
    /\ bg = IdleBg /\ dom = IdleDom
    /\ srv = IdleSrv /\ out = <<>>

\* the locator executeAction resolves: the xpath when given, else the index
Target(action) == IF action.xpath # None THEN action.xpath ELSE action.index

\* a click or input-text action whose locator resolves to no element
NotFound(action) ==
    action.type \in {"click_element", "input_text"} /\ Target(action) = "miss"

\* one call of executeAction, from entry to the result it resolves with; an
\* activation tier can raise only when a click reaches its target.  execIn
\* records the action together with the circumstances of the call: the number
\* of tiers that raised, the value the element held before, and whether the
\* call before this one ended in a resolution failure.
ExecuteAction ==
    \E action \in ExecActions, throws \in 0..3 :
        LET r == executeAction([doc EXCEPT !.effects = <<>>, !.lookups = 0,
                                           !.waited = 0], action, throws)
        IN /\ throws > 0 => (action.type = "click_element" /\ Target(action) = "hit")
           /\ execIn' = action @@ [throws |-> throws, before |-> doc.value,
                                   afterNotFound |-> NotFound(execIn)]
           /\ doc' = r.doc
           /\ execOut' = r.result
           /\ UNCHANGED <<ctxVars, parseVars, csVars, srvVars, bgVars, domVars>>

NextExec == ExecuteAction

SpecExec == InitExec /\ [][NextExec]_vars

\* a malformed action: of the vocabulary, a required field missing
Malformed(a) == a.type \in Vocabulary /\ ~WellFormed(a)

\* C9: when executeAction reports failure for a malformed action, nothing has
\* been done to the document.
C9_MalformedNotExecuted ==
    (execOut # NoResult /\ Malformed(execIn) /\ ~execOut.success) =>
        doc.effects = <<>>

\* the call recorded in execIn has returned
Returned == execOut # NoResult

\* C21: a click or input-text whose locator resolves to no element returns a
\* failed result carrying an error after a single resolution attempt and
\* without touching the document; the call that follows such a failure runs
\* as usual: a click that reaches its target and whose first tier does not
\* raise succeeds.
C21_NotFoundFailsWithoutInteraction ==
    /\ (Returned /\ NotFound(execIn)) =>
          /\ ~execOut.success /\ execOut.hasError /\ ~execOut.hasMessage
          /\ doc.lookups = 1
          /\ doc.effects = <<>>
          /\ doc.value = execIn.before
    /\ (Returned /\ execIn.afterNotFound /\ execIn.type = "click_element"
           /\ Target(execIn) = "hit" /\ execIn.throws = 0) =>
          (execOut.success /\ doc.effects = <<"scrollIntoView", "click">>)

C21_Witness ==
    /\ Returned /\ execIn.afterNotFound
    /\ execIn.type = "click_element" /\ Target(execIn) = "hit"
    /\ execOut.success /\ doc.lookups = 1

\* the activations a click performs when its first `raised` tiers raise
TiersAttempted(raised) ==
    CASE raised = 0 -> <<"click">>
      [] raised = 1 -> <<"click", "dispatchClick">>
      [] raised = 2 -> <<"click", "dispatchClick", "mousedown", "mouseup">>
      [] raised = 3 -> <<"click", "dispatchClick", "mousedown">>

\* C27: a click that reaches its target scrolls to it and then tries the
\* standard click, the dispatched click event and the mouse-down/mouse-up
\* pair in that order, each only if the one before raised; the first tier
\* that does not raise ends the call with success, and a raise in the third
\* tier ends it with a failed result and nothing attempted again.
C27_ClickTiersInOrder ==
    (Returned /\ execIn.type = "click_element" /\ Target(execIn) = "hit") =>
        /\ doc.effects = <<"scrollIntoView">> \o TiersAttempted(execIn.throws)
        /\ execOut.success = (execIn.throws < 3)
        /\ execOut.hasError = (execIn.throws = 3)
        /\ doc.lookups = 1

C27_Witness ==
    /\ Returned /\ execIn.type = "click_element" /\ Target(execIn) = "hit"
    /\ execIn.throws = 3 /\ ~execOut.success
    /\ doc.effects = <<"scrollIntoView", "click", "dispatchClick", "mousedown">>

\* n units typed: n times an append followed by an input notification
Typed(n) == [i \in 1..(2 * n) |-> IF i % 2 = 1 THEN "append" ELSE "input"]

\* C29: input-text on a resolved form control or editable region focuses it,
\* clears it, appends the text one unit at a time with an input notification
\* after each unit, and ends with exactly one change notification; the
\* element then holds exactly the requested text, whatever it held before.
C29_InputTextSequence ==
    (Returned /\ execIn.type = "input_text" /\ Target(execIn) = "hit"
       /\ execIn.hasText /\ Holds(doc)) =>
        /\ doc.effects =
              <<"focus", "clear">> \o Typed(Len(execIn.text)) \o <<"change">>
        /\ doc.value = execIn.text
        /\ doc.focused
        /\ execOut.success

C29_Witness ==
    /\ Returned /\ execIn.type = "input_text" /\ Target(execIn) = "hit"
    /\ Holds(doc) /\ execIn.before = <<"x">>
    /\ execIn.text = <<"a", "b">> /\ doc.value = <<"a", "b">>
    /\ Len(doc.effects) = 7

\* C30: a wait asked for s seconds pauses max(100, min(30000, 1000 * s))
\* milliseconds, for every s, zero and negative values included.
C30_WaitClamped ==
    (Returned /\ execIn.type = "wait" /\ execIn.hasSeconds) =>
        doc.waited =
            (IF execIn.seconds * 1000 < 100 THEN 100
             ELSE IF execIn.seconds * 1000 > 30000 THEN 30000
             ELSE execIn.seconds * 1000)

(***************************************************************************)
(* Specification SpecCs: the content script after init(), receiving        *)
(* 'action', 'requestDOM' and 'updateConfig' messages, document mutations  *)
(* and timer expiries in any order.                                        *)
(***************************************************************************)
CsActions == {"a1", "a2"}

NoTrigger == [kind |-> None, wasProcessing |-> FALSE]

InitCs ==
    /\ cs = [isProcessing |-> FALSE, pendingActionQueue |-> <<>>,
             executing |-> <<>>, settleTimers |-> 0,
             domUpdateTimeout |-> FALSE, domUpdateDue |-> 0, now |-> 0,
             initTimer |-> TRUE, sent |-> <<>>,
             built |-> <<>>, last |-> NoTrigger]
    /\ bg = IdleBg /\ dom = IdleDom
    /\ mm = IdleMM /\ added = <<>>
    /\ parseIn = IdleParse /\ parseOut = IdleParse
    /\ doc = IdleDoc /\ execIn = NoAction /\ execOut = IdleDoc
    /\ srv = IdleSrv /\ out = <<>>

\* the state a step starts from: nothing sent or built yet, the trigger
\* recorded
Triggered(kind) ==
    [cs EXCEPT !.sent = <<>>, !.built = <<>>,
               !.last = [kind |-> kind, wasProcessing |-> cs.isProcessing]]

Fresh(c) == [c EXCEPT !.sent = <<>>, !.built = <<>>, !.last = NoTrigger]

CsUnchanged == UNCHANGED <<ctxVars, parseVars, execVars, srvVars, bgVars, domVars>>

\* an 'action' message arrives
CsReceiveAction ==
    /\ Len(cs.pendingActionQueue) < MaxQueue
    /\ \E action \in CsActions : cs' = handleAction(Fresh(cs), action)
    /\ CsUnchanged

\* a pending executeAction call resolves and its result is sent
CsActionResolves ==
    /\ Len(cs.executing) > 0
    /\ cs' = handleActionResolved([Fresh(cs) EXCEPT !.executing = Tail(@)])
    /\ CsUnchanged

\* a pending executeAction call resolves and sending its result raises
CsActionSendRaises ==
    /\ Len(cs.executing) > 0
    /\ \E sendThrows \in BOOLEAN, buildThrows \in BOOLEAN :
          cs' = handleActionCatch([Fresh(cs) EXCEPT !.executing = Tail(@)],
                                  sendThrows, buildThrows)
    /\ CsUnchanged

\* a 300 ms timer set by handleAction expires
CsSettleTimer ==
    /\ cs.settleTimers > 0
    /\ \E buildThrows \in BOOLEAN :
          cs' = settleCallback([Fresh(cs) EXCEPT !.settleTimers = @ - 1],
                               buildThrows)
    /\ CsUnchanged

\* a 'requestDOM' message arrives
CsRequestDOM ==
    /\ \E buildThrows \in BOOLEAN :
          cs' = collectAndSendDOM(Triggered("requestDOM"), buildThrows)
    /\ CsUnchanged

\* an 'updateConfig' message arrives
CsUpdateConfig ==
    /\ \E buildThrows \in BOOLEAN :
          cs' = updateConfig(Triggered("updateConfig"), buildThrows)
    /\ CsUnchanged

\* the document mutates and the observer's callback runs
CsMutation ==
    /\ \E significantChanges \in BOOLEAN :
          cs' = onMutations(Fresh(cs), significantChanges)
    /\ CsUnchanged

\* the debounce timer expires
CsDebounceTimer ==
    /\ cs.domUpdateTimeout
    /\ \E buildThrows \in BOOLEAN :
          cs' = collectAndSendDOM([Triggered("debounce") EXCEPT !.domUpdateTimeout = FALSE],
                                  buildThrows)
    /\ CsUnchanged

\* the timer of the first collection, set by init(), expires
CsInitTimer ==
    /\ cs.initTimer
    /\ \E buildThrows \in BOOLEAN :
          cs' = collectAndSendDOM([Triggered("init") EXCEPT !.initTimer = FALSE],
                                  buildThrows)
    /\ CsUnchanged

NextCs ==
    \/ CsReceiveAction
    \/ CsActionResolves
    \/ CsActionSendRaises
    \/ CsSettleTimer
    \/ CsRequestDOM
    \/ CsUpdateConfig
    \/ CsMutation
    \/ CsDebounceTimer
    \/ CsInitTimer

SpecCs == InitCs /\ [][NextCs]_vars

\* C2: at most one action is in flight in the page: the executeAction calls
\* entered and not yet resolved, and the settle windows not yet over, number
\* at most one, and isProcessing is set while there is one.
C2_OneActionInFlight ==
    /\ Len(cs.executing) + cs.settleTimers <= 1
    /\ Len(cs.executing) + cs.settleTimers = 1 => cs.isProcessing

\* an action arrived while another was executing and waits in the queue
C2_Witness ==
    /\ Len(cs.executing) = 1
    /\ Len(cs.pendingActionQueue) > 0

\* C14: no build of the document is run and no domState message is sent
\* while isProcessing is true, whatever the trigger: requestDOM,
\* updateConfig, the debounce timer or the timer of the first collection.
C14_NoObservationWhileProcessing ==
    /\ \A i \in 1..Len(cs.built) : ~cs.built[i]
    /\ \A i \in 1..Len(cs.sent) :
          cs.sent[i].type = "domState" => ~cs.sent[i].isProcessing

\* the debounce timer, set before the action started, has expired while the
\* action was in flight, and nothing was built or sent
C14_Witness ==
    /\ cs.last.kind = "debounce" /\ cs.last.wasProcessing
    /\ Len(cs.executing) = 1
    /\ cs.built = <<>> /\ cs.sent = <<>>

(***************************************************************************)
(* Specification SpecCsLive: the content script of SpecCs under the page's *)
(* event loop, which runs every expired timer's callback and resumes every *)
(* await whose promise has settled.  Messages and mutations come from      *)
(* outside and need not come at all.                                       *)
(***************************************************************************)
SpecCsLive ==
    /\ InitCs /\ [][NextCs]_vars
    /\ WF_vars(CsActionResolves \/ CsActionSendRaises)
    /\ WF_vars(CsSettleTimer)
    /\ WF_vars(CsDebounceTimer)
    /\ WF_vars(CsInitTimer)

InQueue(action) ==
    \E i \in 1..Len(cs.pendingActionQueue) : cs.pendingActionQueue[i] = action

Running(action) == Len(cs.executing) > 0 /\ Head(cs.executing) = action

\* C25: an action waiting in the queue is eventually handed to
\* executeAction, whether the actions before it end on the path that sends
\* their result or on the path that handles a raise.
C25_QueuedEventuallyRun ==
    \A action \in CsActions : InQueue(action) ~> Running(action)

(***************************************************************************)
(* Specification SpecObs: the content script, the first collection done,   *)
(* with time.  Time advances in steps of half the debounce delay; a timer  *)
(* that has expired runs before time advances further and before the      *)
(* callbacks of mutations of the same instant.  cs.mutations records each  *)
(* significant mutation, its time and whether isProcessing was false when  *)
(* the observer saw it, and cs.calls the times at which the debounce timer *)
(* called collectAndSendDOM.                                               *)
(***************************************************************************)
MaxTicks == 6
MaxMutations == 3

TickMs == DebounceMs \div 2

InitObs ==
    /\ cs = [isProcessing |-> FALSE, pendingActionQueue |-> <<>>,
             executing |-> <<>>, settleTimers |-> 0,
             domUpdateTimeout |-> FALSE, domUpdateDue |-> 0, now |-> 0,
             initTimer |-> FALSE, sent |-> <<>>,
             built |-> <<>>, last |-> NoTrigger,
             mutations |-> <<>>, calls |-> <<>>]
    /\ bg = IdleBg /\ dom = IdleDom
    /\ mm = IdleMM /\ added = <<>>
    /\ parseIn = IdleParse /\ parseOut = IdleParse
    /\ doc = IdleDoc /\ execIn = NoAction /\ execOut = IdleDoc
    /\ srv = IdleSrv /\ out = <<>>

\* the debounce timer is pending and its delay has elapsed
TimerDue == cs.domUpdateTimeout /\ cs.now >= cs.domUpdateDue

ObsTick ==
    /\ cs.now < MaxTicks * TickMs
    /\ ~TimerDue
    /\ cs' = [Fresh(cs) EXCEPT !.now = @ + TickMs]
    /\ CsUnchanged

\* the document mutates and the observer's callback runs; the significant
\* mutations are recorded
ObsMutation ==
    /\ Len(cs.mutations) < MaxMutations
    /\ ~TimerDue
    /\ \E significantChanges \in BOOLEAN :
          cs' = [onMutations(Fresh(cs), significantChanges) EXCEPT
                    !.mutations =
                        IF significantChanges
                        THEN Append(@, [at |-> cs.now,
                                        accepted |-> ~cs.isProcessing])
                        ELSE @]
    /\ CsUnchanged

\* the debounce timer expires: collectAndSendDOM is called
ObsDebounceTimer ==
    /\ TimerDue
    /\ \E buildThrows \in BOOLEAN :
          cs' = [collectAndSendDOM([Triggered("debounce") EXCEPT
                                      !.domUpdateTimeout = FALSE],
                                   buildThrows)
                 EXCEPT !.calls = Append(@, cs.now)]
    /\ CsUnchanged

\* an 'action' message arrives, the orchestrator having received the result
\* of the action before
ObsReceiveAction ==
    /\ ~cs.isProcessing
    /\ \E action \in CsActions : cs' = handleAction(Fresh(cs), action)
    /\ CsUnchanged

ObsActionResolves ==
    /\ Len(cs.executing) > 0
    /\ cs' = handleActionResolved([Fresh(cs) EXCEPT !.executing = Tail(@)])
    /\ CsUnchanged

ObsSettleTimer ==
    /\ cs.settleTimers > 0
    /\ \E buildThrows \in BOOLEAN :
          cs' = settleCallback([Fresh(cs) EXCEPT !.settleTimers = @ - 1],
                               buildThrows)
    /\ CsUnchanged

NextObs ==
    \/ ObsTick
    \/ ObsMutation
    \/ ObsDebounceTimer
    \/ ObsReceiveAction
    \/ ObsActionResolves
    \/ ObsSettleTimer

SpecObs == InitObs /\ [][NextObs]_vars

\* mutations i..j are a burst: consecutive ones less than the delay apart,
\* the one before and the one after, if any, at least the delay away
Burst(i, j) ==
    LET ms == cs.mutations
    IN /\ \A k \in i..(j - 1) : ms[k + 1].at - ms[k].at < DebounceMs
       /\ i > 1 => ms[i].at - ms[i - 1].at >= DebounceMs
       /\ j < Len(ms) => ms[j + 1].at - ms[j].at >= DebounceMs

\* the quiet interval after mutation j is over
QuietSince(j) == cs.mutations[j].at + DebounceMs < cs.now

\* the debounce timer's calls of collectAndSendDOM later than lo, up to hi
CallsWithin(lo, hi) ==
    {k \in 1..Len(cs.calls) : lo < cs.calls[k] /\ cs.calls[k] <= hi}

\* burst i..j has led to exactly one call, one delay after its last mutation
OneCallAfter(i, j) ==
    LET ms == cs.mutations
    IN /\ Cardinality(CallsWithin(ms[i].at, ms[j].at + DebounceMs)) = 1
       /\ \A k \in CallsWithin(ms[i].at, ms[j].at + DebounceMs) :
             cs.calls[k] = ms[j].at + DebounceMs

\* C28 as stated: every burst of significant mutations leads to exactly one
\* call of collectAndSendDOM, one quiet interval after its last mutation.
C28_OneCallPerBurst ==
    \A i \in 1..Len(cs.mutations) : \A j \in i..Len(cs.mutations) :
        (Burst(i, j) /\ QuietSince(j)) => OneCallAfter(i, j)

\* C28, amended: a burst all of whose mutations the observer saw while no
\* action was being processed leads to exactly one call of collectAndSendDOM,
\* one quiet interval after its last mutation.
C28_OneCallPerObservedBurst ==
    \A i \in 1..Len(cs.mutations) : \A j \in i..Len(cs.mutations) :
        (/\ Burst(i, j) /\ QuietSince(j)
         /\ \A k \in i..j : cs.mutations[k].accepted) => OneCallAfter(i, j)

\* a burst of three mutations at two instants, seen with no action in
\* flight, has been followed by its one call
C28_Witness ==
    /\ Len(cs.mutations) = 3
    /\ Burst(1, 3) /\ QuietSince(3)
    /\ cs.mutations[1].at < cs.mutations[3].at
    /\ \A k \in 1..3 : cs.mutations[k].accepted
    /\ cs.calls = <<cs.mutations[3].at + DebounceMs>>

(***************************************************************************)
(* Specification SpecSrv: one connection to the orchestrator, on which     *)
(* domState, actionResult, executeTask and pageUnload messages arrive in   *)
(* any order, and the decision service answers or fails each request at    *)
(* any later time.                                                         *)
(***************************************************************************)
DomStates ==
    {[url |-> u, urlLen |-> 20, titleLen |-> 10, elementsLen |-> 29] :
        u \in {"u1", "u2"}}

Unloads == {[url |-> "u1", urlLen |-> 20]}

\* actionResult messages: a failed action, a successful one, the result of a
\* done action carrying either flag, and the result handleAction's catch
\* block sends
SrvResults ==
    {[success |-> FALSE, hasData |-> TRUE, isComplete |-> FALSE,
      taskSuccess |-> None, hasFinalMessage |-> FALSE, finalMessage |-> <<>>, messageLen |-> 0,
      errorLen |-> 0],
     [success |-> TRUE, hasData |-> TRUE, isComplete |-> FALSE,
      taskSuccess |-> None, hasFinalMessage |-> FALSE, finalMessage |-> <<>>, messageLen |-> 30,
      errorLen |-> 0],
     [success |-> TRUE, hasData |-> TRUE, isComplete |-> TRUE,
      taskSuccess |-> "true", hasFinalMessage |-> TRUE, finalMessage |-> <<"o", "k">>, messageLen |-> 0,
      errorLen |-> 0],
     [success |-> TRUE, hasData |-> TRUE, isComplete |-> TRUE,
      taskSuccess |-> "false", hasFinalMessage |-> TRUE, finalMessage |-> <<"o", "k">>, messageLen |-> 0,
      errorLen |-> 0],
     [success |-> FALSE, hasData |-> FALSE, isComplete |-> FALSE,
      taskSuccess |-> None, hasFinalMessage |-> FALSE, finalMessage |-> <<>>, messageLen |-> 0,
      errorLen |-> 20]}

FencedJson(action) ==
    [fence |-> "json", closed |-> TRUE, newlines |-> TRUE, around |-> TRUE,
     keyword |-> None,
     payload |-> [syntax |-> "json", shape |-> "nested", hasAction |-> TRUE,
                  hasState |-> TRUE, action |-> action]]

Prose ==
    [fence |-> None, closed |-> FALSE, newlines |-> FALSE, around |-> FALSE,
     keyword |-> None,
     payload |-> [syntax |-> "prose", shape |-> None, hasAction |-> FALSE,
                  hasState |-> FALSE, action |-> NoPayloadAction]]

\* the answers of the decision service: a click, a done, and prose
LlmTexts ==
    {FencedJson(Action("click_element", "hit", None, FALSE, <<>>)),
     FencedJson([Action("done", None, None, FALSE, <<>>) EXCEPT !.success = "true"]),
     Prose}

SrvTaskLens == {8}

\* the done actions the page may be given: the text absent, empty or not,
\* the flag absent, true or false
DoneActions ==
    {[Action("done", None, None, TRUE, t) EXCEPT !.success = f] :
        t \in {<<>>, <<"o", "k">>}, f \in {None, "true", "false"}}
    \cup {[Action("done", None, None, FALSE, <<>>) EXCEPT !.success = f] :
            f \in {None, "true", "false"}}

\* the page on which a done action runs
DonePage ==
    [tag |-> "OTHER", value |-> <<>>, focused |-> FALSE, effects |-> <<>>,
     lookups |-> 0, waited |-> 0]

\* the actionResult message the content script builds from an executor
\* result and the background forwards
ActionResultMessage(result) ==
    [success |-> result.success, hasData |-> TRUE,
     isComplete |-> result.isComplete, taskSuccess |-> result.taskSuccess,
     hasFinalMessage |-> result.hasFinalMessage,
     finalMessage |-> result.finalMessage, messageLen |-> 0, errorLen |-> 0]

NoEvent ==
    [kind |-> None, wasExecuting |-> FALSE, isComplete |-> FALSE,
     unparseable |-> FALSE, task |-> 0]

InitSrv ==
    /\ srv = [isExecuting |-> FALSE, task |-> 0, waitingForResult |-> FALSE,
              isGeneratingAction |-> FALSE, hasLastDomState |-> FALSE,
              agent |-> NoAgent, calls |-> <<>>, tasks |-> 0, events |-> 0,
              completed |-> {}, completions |-> 0, unanswered |-> 0,
              unsolicited |-> FALSE,
              last |-> NoEvent]
    /\ mm = IdleMM
    /\ out = <<>>
    /\ added = <<>>
    /\ parseIn = IdleParse /\ parseOut = IdleParse
    /\ doc = IdleDoc /\ execIn = NoAction /\ execOut = IdleDoc
    /\ cs = IdleCs
    /\ bg = IdleBg /\ dom = IdleDom

\* the world a handler starts from: nothing sent yet, the event recorded
World(event, received) ==
    [srv |-> [srv EXCEPT !.last = event, !.events = @ + received],
     mm |-> mm, out |-> <<>>]

\* the 'action' messages among those a step sent
ActionsSent(messages) == {i \in 1..Len(messages) : messages[i].type = "action"}

\* the step's outcome; srv.unanswered counts the 'action' messages sent since
\* an actionResult was last received, and srv.unsolicited tells whether an
\* actionResult has been received that answered no 'action' message
\* srv.completions counts the taskComplete messages sent
Becomes(w) ==
    /\ srv' = [w.srv EXCEPT
                  !.unanswered =
                      (IF w.srv.last.kind \in {"actionResult", "doneResult"}
                       THEN 0 ELSE @) + Cardinality(ActionsSent(w.out)),
                  !.completions =
                      @ + Cardinality({i \in 1..Len(w.out) :
                                          w.out[i].type = "taskComplete"}),
                  !.unsolicited =
                      @ \/ (/\ w.srv.last.kind \in {"actionResult", "doneResult"}
                            /\ srv.unanswered = 0)]
    /\ mm' = w.mm
    /\ out' = w.out

SrvUnchanged == UNCHANGED <<added, parseVars, execVars, csVars, bgVars, domVars>>

SrvReceiveDomState ==
    /\ srv.events < MaxEvents
    /\ \E data \in DomStates :
          Becomes(handleDomState(
              World([NoEvent EXCEPT !.kind = "domState",
                                    !.wasExecuting = srv.isExecuting], 1),
              data))
    /\ SrvUnchanged

SrvReceiveActionResult ==
    /\ srv.events < MaxEvents
    /\ \E data \in SrvResults :
          Becomes(handleActionResult(
              World([NoEvent EXCEPT
                        !.kind = "actionResult",
                        !.wasExecuting = srv.isExecuting /\ srv.agent # NoAgent,
                        !.isComplete = data.hasData /\ data.isComplete], 1),
              data))
    /\ SrvUnchanged

SrvReceiveExecuteTask ==
    /\ srv.events < MaxEvents
    /\ srv.tasks < MaxTasks
    /\ \E taskLen \in SrvTaskLens :
          Becomes(handleExecuteTask(
              World([NoEvent EXCEPT !.kind = "executeTask",
                                    !.wasExecuting = srv.isExecuting,
                                    !.task = srv.tasks + 1], 1),
              srv.tasks + 1, taskLen))
    /\ SrvUnchanged

SrvReceivePageUnload ==
    /\ srv.events < MaxEvents
    /\ \E data \in Unloads :
          Becomes(handlePageUnload(
              World([NoEvent EXCEPT !.kind = "pageUnload",
                                    !.wasExecuting = srv.isExecuting], 1),
              data))
    /\ SrvUnchanged

\* the page has run a done action and its result arrives
SrvReceiveDoneResult ==
    /\ srv.events < MaxEvents
    /\ \E action \in DoneActions :
          LET result == executeAction(DonePage, action, 0).result
          IN Becomes(handleActionResult(
                 World([kind |-> "doneResult",
                        wasExecuting |-> srv.isExecuting /\ srv.agent # NoAgent,
                        isComplete |-> TRUE, unparseable |-> FALSE,
                        action |-> action, result |-> result], 1),
                 ActionResultMessage(result)))
    /\ SrvUnchanged

\* the decision service answers one of the pending requests
SrvDecision ==
    /\ \E i \in 1..Len(srv.calls), text \in LlmTexts :
          LET w == World([NoEvent EXCEPT
                             !.kind = "decision",
                             !.wasExecuting = srv.isExecuting,
                             !.unparseable = parseActionFromLLM(text) = ParseError],
                         0)
          IN Becomes(handleDomStateResumed(
                 [w EXCEPT !.srv.calls = RemoveAt(@, i)],
                 srv.calls[i], parseActionFromLLM(text)))
    /\ SrvUnchanged

\* one of the pending requests fails
SrvDecisionFails ==
    /\ \E i \in 1..Len(srv.calls) :
          LET w == World([NoEvent EXCEPT !.kind = "decisionFailed",
                                         !.wasExecuting = srv.isExecuting], 0)
          IN Becomes(handleDomStateThrown([w EXCEPT !.srv.calls = RemoveAt(@, i)]))
    /\ SrvUnchanged

\* the page could not build its snapshot and says so with an 'error' message
SrvReceiveError ==
    /\ srv.events < MaxEvents
    /\ Becomes(handleError(
           World([NoEvent EXCEPT !.kind = "error",
                                 !.wasExecuting = srv.isExecuting], 1)))
    /\ SrvUnchanged

NextSrv ==
    \/ SrvReceiveDomState
    \/ SrvReceiveActionResult
    \/ SrvReceiveExecuteTask
    \/ SrvReceivePageUnload
    \/ SrvReceiveDoneResult
    \/ SrvDecision
    \/ SrvDecisionFails
    \/ SrvReceiveError

SpecSrv == InitSrv /\ [][NextSrv]_vars

\* C1: at most one decision request is outstanding per session.
C1_OneDecisionOutstanding == Len(srv.calls) <= 1

\* C3: once taskComplete has been sent for a task, no 'action' message is
\* sent for that task.
C3_NoActionAfterComplete ==
    \A i \in 1..Len(out) :
        out[i].type = "action" => out[i].task \notin srv.completed

\* C4: when the decision service's text yields no action, the step that
\* handles it sends taskComplete with success=false and sends no action.
C4_UnparseableEndsTask ==
    (srv.last.kind = "decision" /\ srv.last.unparseable) =>
        /\ \A i \in 1..Len(out) : out[i].type # "action"
        /\ \E i \in 1..Len(out) :
              out[i].type = "taskComplete" /\ ~out[i].success

\* C10: an action result received while a task is executing is folded into
\* the context, and then exactly one message is sent: requestDOM when the
\* result does not signal completion, taskComplete (ending the task) when it
\* does.
C10_ResultThenOneMessage ==
    (srv.last.kind = "actionResult" /\ srv.last.wasExecuting) =>
        /\ Len(mm.history.messages) > 0
        /\ mm.history.messages[Len(mm.history.messages)].kind = "result"
        /\ Len(out) = 1
        /\ IF srv.last.isComplete
           THEN out[1].type = "taskComplete" /\ ~srv.isExecuting /\ srv.task = 0
           ELSE out[1].type = "requestDOM" /\ srv.isExecuting /\ srv.task # 0

\* a result that signals completion has ended the task
C10_Witness ==
    /\ srv.last.kind = "actionResult" /\ srv.last.wasExecuting
    /\ srv.last.isComplete
    /\ Len(out) = 1 /\ out[1].type = "taskComplete"

\* C11: a decision that is the terminal done variant is never dispatched to
\* the page: no 'action' message carries a done action.
C11_DoneNotDispatched ==
    \A i \in 1..Len(out) :
        out[i].type = "action" => out[i].action.type # "done"

\* the done action whose result the last step handled carried a flag and a
\* text, and a task was executing
DoneHandled ==
    /\ srv.last.kind = "doneResult" /\ srv.last.wasExecuting
    /\ srv.last.action.success # None /\ srv.last.action.hasText

\* C20 as stated: the result of a done action with flag f and message m
\* reports executor-level success, and the taskComplete message carries
\* success = f and message = m.
C20_DoneCarriesFlagAndMessage ==
    DoneHandled =>
        /\ srv.last.result.success
        /\ Len(out) = 1 /\ out[1].type = "taskComplete"
        /\ out[1].success = (srv.last.action.success = "true")
        /\ out[1].result = srv.last.action.text

\* C20 amended: as above for a message that is not empty; an empty message
\* is replaced by 'Task completed'.
C20_DoneCarriesFlagAndNonEmptyMessage ==
    DoneHandled =>
        /\ srv.last.result.success
        /\ Len(out) = 1 /\ out[1].type = "taskComplete"
        /\ out[1].success = (srv.last.action.success = "true")
        /\ out[1].result = IF srv.last.action.text # <<>>
                           THEN srv.last.action.text ELSE TaskCompleted

\* a done action carrying success = false and a message has ended the task
C20_Witness ==
    /\ DoneHandled
    /\ srv.last.action.success = "false"
    /\ srv.last.action.text = <<"o", "k">>
    /\ Len(out) = 1 /\ out[1].type = "taskComplete" /\ ~out[1].success

DecisionFailsStep ==
    /\ srv'.last.kind = "decisionFailed"
    /\ Len(srv'.calls) = Len(srv.calls) - 1

\* a domState received in the state the step leads to starts a decision
\* request
NextDomStateStartsRequest ==
    \A data \in DomStates :
        LET w == handleDomState([srv |-> srv', mm |-> mm', out |-> <<>>], data)
        IN /\ Len(w.srv.calls) = Len(srv'.calls) + 1
           /\ w.srv.isGeneratingAction

ResultHandled == srv.last.kind \in {"actionResult", "doneResult"}

\* C38: every task has at most one taskComplete message; the message is sent
\* only by the step that handles an action result whose payload has
\* isComplete set, alone, and leaves isExecuting false and the task null; an
\* action result that arrives when no task is executing sends nothing.
C38_OneCompletionPerTask ==
    /\ srv.completions = Cardinality(srv.completed)
    /\ srv.completions <= srv.tasks
    /\ \A i \in 1..Len(out) :
          out[i].type = "taskComplete" =>
              /\ Len(out) = 1
              /\ ResultHandled /\ srv.last.isComplete /\ srv.last.wasExecuting
              /\ ~srv.isExecuting /\ srv.task = 0
    /\ (ResultHandled /\ ~srv.last.wasExecuting) =>
          (out = <<>> /\ ~srv.isExecuting)

\* a task has been completed and a later action result, itself signalling
\* completion, has sent nothing
C38_Witness ==
    /\ ResultHandled /\ ~srv.last.wasExecuting /\ srv.last.isComplete
    /\ srv.completions = 1 /\ srv.completed = {1}
    /\ out = <<>>

\* the step is the receipt, while a task is executing, of a message of the
\* given kind
ReceivedWhileExecuting(kind) ==
    /\ srv'.events = srv.events + 1 /\ srv'.last.kind = kind
    /\ srv.isExecuting /\ srv.agent # NoAgent

\* the step appends one entry to the conversation context
EntryAppended ==
    /\ mm # IdleMM /\ mm' # IdleMM
    /\ Len(mm'.history.messages) = Len(mm.history.messages) + 1

\* C22: during a task, the result of an action, failed ones included, and
\* the failure to build a snapshot each leave an entry in the conversation
\* context.
C22_FailuresFoldedIntoContext ==
    [][/\ ReceivedWhileExecuting("actionResult") =>
             /\ EntryAppended
             /\ mm'.history.messages[Len(mm'.history.messages)].kind = "result"
       /\ ReceivedWhileExecuting("error") => EntryAppended]_vars

\* C23: a task start received while a task is executing ends that task and
\* makes the new task the active one.
C23_NewTaskReplacesActive ==
    (srv.last.kind = "executeTask" /\ srv.last.wasExecuting) =>
        /\ srv.isExecuting
        /\ srv.task = srv.last.task
        /\ srv.agent # NoAgent /\ srv.agent.task = srv.last.task

\* the step is the receipt of a pageUnload message
PageUnloadStep == srv'.events = srv.events + 1 /\ srv'.last.kind = "pageUnload"

\* the step leaves the flags, the active task, the pending decisions, the step
\* counter and the completion state as they were, and sends nothing
UnloadFrame ==
    /\ srv'.isExecuting = srv.isExecuting
    /\ srv'.waitingForResult = srv.waitingForResult
    /\ srv'.isGeneratingAction = srv.isGeneratingAction
    /\ srv'.task = srv.task
    /\ srv'.calls = srv.calls
    /\ srv'.completed = srv.completed
    /\ (srv.agent = NoAgent) = (srv'.agent = NoAgent)
    /\ srv.agent # NoAgent =>
          /\ srv'.agent.steps = srv.agent.steps
          /\ srv'.agent.isComplete = srv.agent.isComplete
          /\ srv'.agent.finalResult = srv.agent.finalResult
    /\ out' = <<>>

\* the step appends one navigation entry to the context and moves the
\* current address into the navigation history
UnloadFolded ==
    /\ srv.agent # NoAgent /\ mm # IdleMM
    /\ Len(mm'.history.messages) = Len(mm.history.messages) + 1
    /\ mm'.history.messages[Len(mm'.history.messages)].kind = "navigation"
    /\ \A i \in 1..Len(mm.history.messages) :
          mm'.history.messages[i] = mm.history.messages[i]
    /\ srv'.agent.pageHistory = Append(srv.agent.pageHistory, srv.agent.currentUrl)
    /\ \E data \in Unloads : srv'.agent.currentUrl = data.url

\* C24 as stated: in whatever state a pageUnload arrives, one navigation
\* entry is appended and the navigation history updated, the flags, the step
\* counter and the completion state stay as they were and nothing is sent.
C24_UnloadFoldedInAnyState ==
    [][PageUnloadStep => (UnloadFrame /\ UnloadFolded)]_vars

\* C24, amended: a pageUnload never changes the flags, the step counter or
\* the completion state and never sends anything; it appends one navigation
\* entry and updates the navigation history when a task is executing, and
\* leaves the context and the agent untouched otherwise.
C24_UnloadFoldedWhileExecuting ==
    [][PageUnloadStep =>
         /\ UnloadFrame
         /\ (srv.isExecuting /\ srv.agent # NoAgent) => UnloadFolded
         /\ ~(srv.isExecuting /\ srv.agent # NoAgent) =>
               (mm' = mm /\ srv'.agent = srv.agent)]_vars

C24_Witness ==
    /\ srv.last.kind = "pageUnload" /\ srv.last.wasExecuting
    /\ srv.isExecuting /\ srv.waitingForResult
    /\ mm # IdleMM
    /\ mm.history.messages[Len(mm.history.messages)].kind = "navigation"
    /\ Len(srv.agent.pageHistory) = 1
    /\ out = <<>>

(***************************************************************************)
(* Specification SpecCtx: a MessageManager built with some task and some   *)
(* budget, to which observations, action results and navigation events     *)
(* are added in any order.                                                 *)
(***************************************************************************)
TaskLens == {8}

\* options.maxTokens: 0 is "not given" (the default applies); 100 is below the
\* cost of the system instruction alone; 420 and 450 hold the two first
\* entries and at most one observation; 470 holds two observations
Budgets == {0, 100, 420, 450, 470}

\* a domState message as the context manager reads it
States == {[urlLen |-> 20, titleLen |-> 10, elementsLen |-> e] : e \in {29, 69}}

CtxActions ==
    {NoAction,
     Action("click_element", "hit", None, FALSE, <<>>),
     Action("input_text", "hit", None, TRUE, <<"a">>)}

\* an actionResult message as the context manager reads it
CtxResults ==
    {[success |-> ok, messageLen |-> IF ok THEN 30 ELSE 0, errorLen |-> 0,
      action |-> a] : ok \in BOOLEAN, a \in CtxActions}

UrlLens == {20}

InitCtx ==
    /\ \E t \in TaskLens, b \in Budgets : mm = NewMessageManager(t, b)
    /\ added = <<>>
    /\ parseIn = IdleParse /\ parseOut = IdleParse
    /\ doc = IdleDoc /\ execIn = NoAction /\ execOut = IdleDoc
    /\ cs = IdleCs
    /\ bg = IdleBg /\ dom = IdleDom
    /\ srv = IdleSrv /\ out = <<>>

CtxAddState ==
    /\ Len(added) < MaxAdds
    /\ \E state \in States : mm' = addStateMessage(mm, state)
    /\ added' = Append(added, "state")
    /\ UNCHANGED <<parseVars, execVars, csVars, srvVars, bgVars, domVars>>

CtxAddActionResult ==
    /\ Len(added) < MaxAdds
    /\ \E result \in CtxResults : mm' = addActionResultMessage(mm, result)
    /\ added' = Append(added, "result")
    /\ UNCHANGED <<parseVars, execVars, csVars, srvVars, bgVars, domVars>>

CtxAddNavigation ==
    /\ Len(added) < MaxAdds
    /\ \E u \in UrlLens : mm' = addNavigationMessage(mm, u)
    /\ added' = Append(added, "navigation")
    /\ UNCHANGED <<parseVars, execVars, csVars, srvVars, bgVars, domVars>>

NextCtx == CtxAddState \/ CtxAddActionResult \/ CtxAddNavigation

SpecCtx == InitCtx /\ [][NextCtx]_vars

Kinds(messages) == [i \in 1..Len(messages) |-> messages[i].kind]

IsPinned(entry) == entry.kind \in {"instruction", "task"}

RECURSIVE SumTokens(_, _)
SumTokens(messages, i) ==
    IF i > Len(messages) THEN 0 ELSE messages[i].tokens + SumTokens(messages, i + 1)

\* C6: after any sequence of additions the transcript of getMessages has the
\* system instruction as entry 0 and the task statement as entry 1.
C6_PinnedEntriesKept ==
    added # <<>> =>
        LET t == getMessages(mm.history)
        IN /\ Len(t) >= 2
           /\ t[1].kind = "instruction"
           /\ t[2].kind = "task"

\* C7: after every addition the total estimated cost of the retained entries is
\* within the budget, unless only pinned entries remain.
C7_WithinBudget ==
    added # <<>> =>
        \/ SumTokens(mm.history.messages, 1) <= mm.maxTokens
        \/ \A i \in 1..Len(mm.history.messages) : IsPinned(mm.history.messages[i])

\* the budget holds the pinned entries and one observation, but not two
HoldsOneObservationOnly(m) ==
    LET pinned == estimateTokens(SystemContentLen)
                  + estimateTokens(TaskPrefixLen + m.taskLen)
        obs == {estimateTokens(formatStateMessage(m, st)) : st \in States}
    IN /\ \A o \in obs : pinned + o <= m.maxTokens
       /\ \A o1 \in obs, o2 \in obs : pinned + o1 + o2 > m.maxTokens

\* C8: with a budget that holds one observation only, three observations added
\* in sequence leave the two pinned entries and the last observation.
C8_LastObservationKept ==
    (added = <<"state", "state", "state">> /\ HoldsOneObservationOnly(mm)) =>
        LET ms == mm.history.messages
        IN /\ Kinds(ms) = <<"instruction", "task", "state">>
           /\ ms[3].timestamp = mm.clock

\* C40: currentTokens is the sum of the token estimates stored with the
\* entries still retained, and the retained entries stand in the order of
\* their insertion.
C40_RunningCostExact ==
    LET ms == mm.history.messages
    IN /\ mm.history.currentTokens = SumTokens(ms, 1)
       /\ \A i \in 1..Len(ms) : \A j \in (i + 1)..Len(ms) :
             ms[i].timestamp < ms[j].timestamp

\* entries have been evicted, an observation among them, and others retained
C40_Witness ==
    LET ms == mm.history.messages
    IN /\ Len(added) = MaxAdds
       /\ Len(ms) > 2 /\ Len(ms) < 2 + Len(added)
       /\ mm.history.currentTokens > mm.maxTokens - 100
       /\ ms[Len(ms)].timestamp = mm.clock

(***************************************************************************)
(* The background script's transport channel.  b = [socket, stale,         *)
(* connectionStatus, reconnectAttempts, serverUrlValid, timers, created,   *)
(* deliberate, autoSinceOpen, last].  socket is the readyState of the      *)
(* WebSocket the variable socket refers to, None for null: "connecting",   *)
(* "open", "closingC" (close() called before the connection was            *)
(* established), "closingO" (close() called on an open connection) or      *)
(* "closed" (its close event has been handled).  stale counts the sockets  *)
(* the variable no longer refers to and whose close event is still to      *)
(* come.  timers holds the pending setTimeout(connectToServer, delay)      *)
(* calls.  created, deliberate, autoSinceOpen and last are history:        *)
(* the sockets constructed so far, whether the operator's last request     *)
(* was 'disconnect', the automatic attempts scheduled since the last       *)
(* successful open, and the step taken last.                               *)
(***************************************************************************)
maxReconnectAttempts == 5
reconnectDelay == 3000

NoStep ==
    [kind |-> None, wasClean |-> FALSE, scheduled |-> FALSE,
     created |-> FALSE, deliberate |-> FALSE]

\* WebSocket.close(): the state the socket goes to
CloseSocket(state) ==
    IF state = "connecting" THEN "closingC"
    ELSE IF state = "open" THEN "closingO"
    ELSE state

\* the socket variable lets go of a socket: it is awaited if it is closing
Detach(stale, state) ==
    IF state \in {"closingC", "closingO"}
    THEN [stale EXCEPT ![state] = @ + 1]
    ELSE stale

\* connectToServer(url): hasUrl, a url is given, and valid, it is one the
\* WebSocket constructor accepts
connectToServer(b, hasUrl, valid) ==
    LET b1 == IF hasUrl THEN [b EXCEPT !.serverUrlValid = valid] ELSE b
        b2 == IF b1.socket # None /\ b1.socket # "closed"
              THEN [b1 EXCEPT !.socket = CloseSocket(@)]
              ELSE b1
    IN IF b2.serverUrlValid
       THEN [b2 EXCEPT !.stale = Detach(@, b2.socket),
                       !.socket = "connecting",
                       !.connectionStatus = "connecting",
                       !.created = @ + 1,
                       !.last.created = TRUE]
       ELSE [b2 EXCEPT !.connectionStatus = "error"]

\* socket.onopen
onopen(b) ==
    [b EXCEPT !.connectionStatus = "connected",
              !.reconnectAttempts = 0,
              !.autoSinceOpen = 0]

\* socket.onclose with a delay that does not grow
oncloseFixedDelay(b, wasClean) ==
    LET b1 == [b EXCEPT !.connectionStatus = "disconnected"]
    IN IF ~wasClean /\ b1.reconnectAttempts < maxReconnectAttempts
       THEN [b1 EXCEPT !.reconnectAttempts = @ + 1,
                       !.autoSinceOpen = @ + 1,
                       !.timers = Append(@, [delay |-> reconnectDelay,
                                             k |-> b1.autoSinceOpen + 1]),
                       !.last.scheduled = TRUE]
       ELSE b1

\* socket.onclose
onclose(b, wasClean) ==
    LET b1 == [b EXCEPT !.connectionStatus = "disconnected"]
    IN IF ~wasClean /\ b1.reconnectAttempts < maxReconnectAttempts
       THEN LET attempts == b1.reconnectAttempts + 1
            IN [b1 EXCEPT !.reconnectAttempts = attempts,
                          !.autoSinceOpen = @ + 1,
                          !.timers = Append(@, [delay |-> reconnectDelay * attempts,
                                                k |-> b1.autoSinceOpen + 1]),
                          !.last.scheduled = TRUE]
       ELSE b1

\* disconnectFromServer
disconnectFromServer(b) ==
    LET b1 == IF b.socket # None
              THEN [b EXCEPT !.stale = Detach(@, CloseSocket(b.socket)),
                             !.socket = None]
              ELSE b
    IN [b1 EXCEPT !.connectionStatus = "disconnected"]

\* the listener of chrome.runtime.onMessage for a message of a content
\* script: tab is sender.tab.id, 0 when the sender is not a tab
setupMessageListeners(b, tab) ==
    IF tab # 0 THEN [b EXCEPT !.activeTab = tab] ELSE b

\* handleExecuteTask of the background script
bgHandleExecuteTask(b) ==
    IF b.socket # "open" THEN b
    ELSE IF b.activeTab = 0 THEN b
    ELSE [b EXCEPT !.taskInProgress = TRUE,
                   !.taskTab = b.activeTab,
                   !.taskSocket = b.created,
                   !.forwardedTo = 0]

\* socket.onmessage
onmessage(b, type) ==
    IF type \in {"action", "requestDOM"} /\ b.activeTab # 0
    THEN [b EXCEPT !.forwardedTo = b.activeTab]
    ELSE IF type = "taskComplete"
    THEN [b EXCEPT !.taskInProgress = FALSE, !.taskTab = 0,
                   !.taskSocket = 0, !.forwardedTo = 0]
    ELSE b

(***************************************************************************)
(* Specification SpecBg: the background script after init() has made the   *)
(* first connection attempt; the operator sends 'connect' and 'disconnect' *)
(* requests, sockets open and close, reconnect timers expire, in any       *)
(* order.                                                                  *)
(***************************************************************************)
MaxSockets == 7
MaxTaskSockets == 3

\* the sockets a behaviour may construct: fewer when tasks and tabs are
\* followed as well
SocketBound ==
    IF "taskInProgress" \in DOMAIN bg THEN MaxTaskSockets ELSE MaxSockets

InitBg ==
    /\ bg = [socket |-> "connecting",
             stale |-> [closingC |-> 0, closingO |-> 0],
             connectionStatus |-> "connecting", reconnectAttempts |-> 0,
             serverUrlValid |-> TRUE, timers |-> <<>>, created |-> 1,
             deliberate |-> FALSE, autoSinceOpen |-> 0, last |-> NoStep]
    /\ mm = IdleMM /\ added = <<>>
    /\ parseIn = IdleParse /\ parseOut = IdleParse
    /\ doc = IdleDoc /\ execIn = NoAction /\ execOut = IdleDoc
    /\ cs = IdleCs
    /\ srv = IdleSrv /\ out = <<>>
    /\ dom = IdleDom

\* the state a step starts from, the step recorded
Step(kind, wasClean) ==
    [bg EXCEPT !.last = [NoStep EXCEPT !.kind = kind, !.wasClean = wasClean,
                                       !.deliberate = bg.deliberate]]

BgUnchanged == UNCHANGED <<ctxVars, parseVars, execVars, csVars, srvVars, domVars>>

\* a close event is clean only when the closing handshake completed, which
\* takes a connection that was established
CanClose(state, wasClean) ==
    /\ state \in {"connecting", "open", "closingC", "closingO"}
    /\ wasClean => state \in {"open", "closingO"}

\* the operator's 'connect' request
BgConnect ==
    /\ bg.created < SocketBound
    /\ \E hasUrl \in BOOLEAN, valid \in BOOLEAN :
          /\ valid \/ hasUrl
          /\ bg' = connectToServer([Step("connect", FALSE) EXCEPT !.deliberate = FALSE],
                                   hasUrl, valid)
    /\ BgUnchanged

\* the operator's 'disconnect' request
BgDisconnect ==
    /\ bg' = disconnectFromServer([Step("disconnect", FALSE) EXCEPT !.deliberate = TRUE])
    /\ BgUnchanged

\* the connection of the current socket is established
BgSocketOpens ==
    /\ bg.socket = "connecting"
    /\ bg' = onopen([Step("open", FALSE) EXCEPT !.socket = "open"])
    /\ BgUnchanged

\* the close event of the current socket
BgSocketCloses ==
    /\ \E wasClean \in BOOLEAN :
          /\ CanClose(bg.socket, wasClean)
          /\ bg' = onclose([Step("close", wasClean) EXCEPT !.socket = "closed"],
                           wasClean)
    /\ BgUnchanged

\* the close event of a socket the variable no longer refers to
BgStaleSocketCloses ==
    /\ \E state \in {"closingC", "closingO"}, wasClean \in BOOLEAN :
          /\ bg.stale[state] > 0
          /\ CanClose(state, wasClean)
          /\ bg' = onclose([Step("close", wasClean) EXCEPT !.stale[state] = @ - 1],
                           wasClean)
    /\ BgUnchanged

\* a reconnect timer expires
BgReconnectTimer ==
    /\ bg.created < SocketBound
    /\ \E i \in 1..Len(bg.timers) :
          bg' = connectToServer([Step("timer", FALSE) EXCEPT !.timers = RemoveAt(@, i)],
                                FALSE, TRUE)
    /\ BgUnchanged

NextBg ==
    \/ BgConnect
    \/ BgDisconnect
    \/ BgSocketOpens
    \/ BgSocketCloses
    \/ BgStaleSocketCloses
    \/ BgReconnectTimer

SpecBg == InitBg /\ [][NextBg]_vars

\* C12: after the operator's 'disconnect', no socket is created unless by an
\* explicit 'connect' request: a step that creates a socket while the last
\* request was 'disconnect' is that request's successor 'connect'.
C12_NoReconnectAfterDisconnect ==
    (bg.last.created /\ bg.last.deliberate) => bg.last.kind = "connect"

\* C13: the k-th automatic attempt since the last successful open is delayed
\* k * reconnectDelay; the counter never exceeds maxReconnectAttempts, is 0
\* after a successful open, and at the ceiling an unexpected closure
\* schedules nothing.
C13_LinearBoundedBackoff ==
    /\ bg.reconnectAttempts <= maxReconnectAttempts
    /\ bg.autoSinceOpen <= maxReconnectAttempts
    /\ bg.last.kind = "open" => bg.reconnectAttempts = 0
    /\ \A i \in 1..Len(bg.timers) :
          bg.timers[i].delay = bg.timers[i].k * reconnectDelay
    /\ (bg.last.kind = "close" /\ bg.last.scheduled) =>
          /\ ~bg.last.wasClean
          /\ bg.timers[Len(bg.timers)].k = bg.reconnectAttempts

\* the ceiling has been reached and one more unexpected closure has
\* scheduled nothing
C13_Witness ==
    /\ bg.reconnectAttempts = maxReconnectAttempts
    /\ bg.last.kind = "close" /\ ~bg.last.wasClean /\ ~bg.last.scheduled
    /\ bg.timers = <<>>

\* the step is the expiry of a reconnect timer
ReconnectTimerStep ==
    /\ bg'.last.kind = "timer"
    /\ Len(bg'.timers) = Len(bg.timers) - 1

\* C33: a reconnect timer that fires does not close an open socket, and at
\* most one reconnect timer is pending at any time.
C33_ReconnectSparesOpenSocket ==
    [][/\ ReconnectTimerStep => bg.socket # "open"
       /\ Len(bg'.timers) <= 1]_vars

\* no socket has an event pending delivery
NoSocketEventPending ==
    /\ bg.stale.closingC = 0 /\ bg.stale.closingO = 0
    /\ bg.socket \notin {"connecting", "closingC", "closingO"}

\* C34: when no socket event is pending, connectionStatus is 'connected'
\* exactly when the current socket is open.
C34_StatusAgreesWithSocket ==
    NoSocketEventPending =>
        (bg.connectionStatus = "connected" <=> bg.socket = "open")

(***************************************************************************)
(* Specification SpecTab: the background script with its tasks and tabs.   *)
(* activeTab is the tab id, 0 for null; taskInProgress the flag.  taskTab, *)
(* taskSocket and forwardedTo are history: the tab that was active when    *)
(* the task in progress was started, the socket its executeTask was sent   *)
(* on (the server keeps the session of a task as long as that connection   *)
(* is open and discards it when the connection closes), and the tab the    *)
(* last action or requestDOM of the task was forwarded to.                 *)
(***************************************************************************)
Tabs == {1, 2}

InitTab ==
    /\ bg = [socket |-> "connecting",
             stale |-> [closingC |-> 0, closingO |-> 0],
             connectionStatus |-> "connecting", reconnectAttempts |-> 0,
             serverUrlValid |-> TRUE, timers |-> <<>>, created |-> 1,
             deliberate |-> FALSE, autoSinceOpen |-> 0, last |-> NoStep,
             activeTab |-> 0, taskInProgress |-> FALSE,
             taskTab |-> 0, taskSocket |-> 0, forwardedTo |-> 0]
    /\ mm = IdleMM /\ added = <<>>
    /\ parseIn = IdleParse /\ parseOut = IdleParse
    /\ doc = IdleDoc /\ execIn = NoAction /\ execOut = IdleDoc
    /\ cs = IdleCs
    /\ srv = IdleSrv /\ out = <<>>
    /\ dom = IdleDom

\* the server holds the session of the task in progress
ServerHasTask ==
    /\ bg.taskSocket # 0
    /\ bg.taskSocket = bg.created
    /\ bg.socket = "open"

\* the content script of a tab sends domState, actionResult or pageUnload
TabContentMessage ==
    /\ \E tab \in Tabs :
          bg' = setupMessageListeners(Step("message", FALSE), tab)
    /\ BgUnchanged

\* the popup sends 'executeTask'
TabExecuteTask ==
    /\ bg' = bgHandleExecuteTask(setupMessageListeners(Step("executeTask", FALSE), 0))
    /\ BgUnchanged

\* a message of the server arrives: the server sends action, requestDOM
\* and taskComplete for the task of a session it holds
TabServerMessage ==
    /\ ServerHasTask
    /\ \E type \in {"action", "requestDOM", "taskComplete"} :
          bg' = onmessage(Step(type, FALSE), type)
    /\ BgUnchanged

NextTab ==
    \/ BgConnect
    \/ BgDisconnect
    \/ BgSocketOpens
    \/ BgSocketCloses
    \/ BgStaleSocketCloses
    \/ BgReconnectTimer
    \/ TabContentMessage
    \/ TabExecuteTask
    \/ TabServerMessage

SpecTab == InitTab /\ [][NextTab]_vars

\* a message the server sent arrives, an expired timer's callback runs, a
\* socket that was closed gets its close event and a connection attempt
\* succeeds or fails
SpecTabLive ==
    /\ InitTab /\ [][NextTab]_vars
    /\ WF_vars(TabServerMessage)
    /\ WF_vars(BgReconnectTimer)
    /\ WF_vars(BgStaleSocketCloses)
    /\ WF_vars(BgSocketOpens \/ (BgSocketCloses /\ bg.socket = "connecting"))

\* C36: while a task is in progress activeTab is the tab the task was
\* started in, and every action and requestDOM of the task has been
\* forwarded to that tab.
C36_ActiveTabFixedDuringTask ==
    bg.taskInProgress =>
        /\ bg.activeTab = bg.taskTab
        /\ bg.forwardedTo \in {0, bg.taskTab}

\* C35: when the task is in progress and the server no longer holds its
\* session, taskInProgress eventually returns to false (behaviours are
\* followed as far as SocketBound sockets).
C35_TaskFlagEventuallyCleared ==
    (bg.taskInProgress /\ ~ServerHasTask) ~>
        (~bg.taskInProgress \/ bg.created = SocketBound)

(***************************************************************************)
(* The DOM builder.  A page is [nodes, innerHeight, innerWidth, container, *)
(* overlays]: nodes is the sequence of the elements in document order, the *)
(* number of an element being its position; 0 stands for no element (null *)
(* and the Document nodes, which are not elements) and Other for an        *)
(* element outside the modelled tree.  An element is                       *)
(*   [tag, parent, via, style, top, height, left, width, covered, docHit,  *)
(*    rootHit, interactive]:                                               *)
(*   via: "child" when the element is a child node of parent, "shadow"     *)
(*     when it is a child of parent's shadow root, "document" when it is   *)
(*     the root element of the top document (parent 0) or of the document  *)
(*     of the iframe parent;                                               *)
(*   style: "visible", "none" (display none, not rendered) or              *)
(*     "transparent" (opacity 0, rendered and hit by elementFromPoint);    *)
(*   top, height, left, width: getBoundingClientRect();                    *)
(*   covered: an element outside the tree lies over the centre;            *)
(*   docHit, rootHit: what document.elementFromPoint and                   *)
(*     getRootNode().elementFromPoint return at the centre when the centre *)
(*     is inside the viewport and not covered;                             *)
(*   interactive: what the interactivity signature says.                   *)
(* container: the overlay container is the last child of body; overlays:   *)
(* the overlays drawn in it; failAt is the element whose inspection raises *)
(* an exception, 0 when none does.  A builder is [options, highlightIndex,       *)
(* selectorMap], selectorMap a set of [index, node].                       *)
(***************************************************************************)
Other == 0 - 1
DocumentElement == 1
Body == 2

leafElementDenyList == {"svg", "script", "style", "link", "meta", "noscript", "template"}

Ids(page) == [i \in 1..Len(page.nodes) |-> i]

\* the number the overlay container has when it is in the document
ContainerId(page) == Len(page.nodes) + 1

\* node.childNodes, the elements of it
childNodes(page, n) ==
    LET own == SelectSeq(Ids(page),
                         LAMBDA i : page.nodes[i].parent = n
                                    /\ page.nodes[i].via = "child")
    IN IF n = Body /\ page.container THEN Append(own, ContainerId(page)) ELSE own

\* node.shadowRoot.childNodes, empty when there is no shadow root
shadowChildNodes(page, n) ==
    SelectSeq(Ids(page),
              LAMBDA i : page.nodes[i].parent = n /\ page.nodes[i].via = "shadow")

\* node.contentDocument.body, 0 when there is none
contentBody(page, n) ==
    LET bodies == {i \in 1..Len(page.nodes) :
                     /\ page.nodes[i].tag = "body"
                     /\ page.nodes[i].via = "child"
                     /\ page.nodes[i].parent # 0
                     /\ page.nodes[page.nodes[i].parent].via = "document"
                     /\ page.nodes[page.nodes[i].parent].parent = n}
    IN IF bodies = {} THEN 0 ELSE CHOOSE i \in bodies : TRUE

\* the root element of node.contentDocument, 0 when there is none
contentDocument(page, n) ==
    LET roots == {i \in 1..Len(page.nodes) :
                    page.nodes[i].via = "document" /\ page.nodes[i].parent = n}
    IN IF roots = {} THEN 0 ELSE CHOOSE i \in roots : TRUE

\* element.parentElement
parentElement(page, n) ==
    IF page.nodes[n].via = "child" THEN page.nodes[n].parent ELSE 0

_isElementAccepted(page, n) == page.nodes[n].tag \notin leafElementDenyList

_isElementVisible(page, n) == page.nodes[n].style = "visible"

_isInExpandedViewport(page, n, viewportExpansion) ==
    IF viewportExpansion = 0 - 1 THEN TRUE
    ELSE LET e == page.nodes[n]
         IN ~ \/ e.top + e.height < 0 - viewportExpansion
              \/ e.top > page.innerHeight + viewportExpansion
              \/ e.left + e.width < 0 - viewportExpansion
              \/ e.left > page.innerWidth + viewportExpansion

\* elementFromPoint at the centre of element n; hit: the element found there
\* when the point is inside the viewport and nothing lies over it
elementFromPoint(page, n, hit) ==
    LET e == page.nodes[n]
        centerX == e.left + e.width \div 2
        centerY == e.top + e.height \div 2
    IN IF \/ centerX < 0 \/ centerX > page.innerWidth
          \/ centerY < 0 \/ centerY > page.innerHeight
       THEN 0
       ELSE IF e.covered THEN Other ELSE hit

\* element.getRootNode() instanceof ShadowRoot
RECURSIVE InShadowRoot(_, _)
InShadowRoot(page, n) ==
    IF n = 0 THEN FALSE
    ELSE IF page.nodes[n].via = "shadow" THEN TRUE
    ELSE IF page.nodes[n].via = "document" THEN FALSE
    ELSE InShadowRoot(page, page.nodes[n].parent)

\* the loop of _isTopElement: from current up the parentElement chain until
\* null or stop, looking for element
RECURSIVE ReachesUp(_, _, _, _)
ReachesUp(page, current, element, stop) ==
    IF current = 0 \/ current = Other \/ current = stop THEN FALSE
    ELSE IF current = element THEN TRUE
    ELSE ReachesUp(page, parentElement(page, current), element, stop)

\* _isTopElement hit-testing every element in its own root
_isTopElementOwnRoot(page, n) ==
    ReachesUp(page, elementFromPoint(page, n, page.nodes[n].rootHit), n,
              IF InShadowRoot(page, n) THEN 0 ELSE DocumentElement)

_isTopElement(page, n) ==
    IF InShadowRoot(page, n)
    THEN ReachesUp(page, elementFromPoint(page, n, page.nodes[n].rootHit), n, 0)
    ELSE ReachesUp(page, elementFromPoint(page, n, page.nodes[n].docHit), n,
                   DocumentElement)

_isInteractiveElement(page, n) == page.nodes[n].interactive

\* the number of preceding siblings with the same nodeName
PrecedingSameName(page, n) ==
    Cardinality({i \in 1..(n - 1) :
                   /\ page.nodes[i].parent = page.nodes[n].parent
                   /\ page.nodes[i].via = page.nodes[n].via
                   /\ page.nodes[i].tag = page.nodes[n].tag})

\* _getXPathTree(element): the segments, each [tag, pos], pos 0 when the
\* segment has no [k]
RECURSIVE _getXPathTree(_, _)
_getXPathTree(page, n) ==
    IF n = 0 THEN <<>>
    ELSE IF page.nodes[n].via = "shadow" THEN <<>>
    ELSE LET index == PrecedingSameName(page, n)
             segment == [tag |-> page.nodes[n].tag,
                         pos |-> IF index > 0 THEN index + 1 ELSE 0]
             parentNode == IF page.nodes[n].via = "child"
                           THEN page.nodes[n].parent ELSE 0
         IN <<>> \o _getXPathTree(page, parentNode) \o <<segment>>

\* document.evaluate(xpath, document): the elements a relative location
\* path selects from the context nodes ctx (0 is the top Document)
RECURSIVE Evaluate(_, _, _)
Evaluate(page, xpath, ctx) ==
    IF xpath = <<>> THEN ctx
    ELSE LET segment == Head(xpath)
             step == {i \in 1..Len(page.nodes) :
                        /\ page.nodes[i].parent \in ctx
                        /\ IF page.nodes[i].parent = 0
                           THEN page.nodes[i].via = "document"
                           ELSE page.nodes[i].via = "child"
                        /\ page.nodes[i].tag = segment.tag
                        /\ segment.pos # 0 =>
                              PrecedingSameName(page, i) + 1 = segment.pos}
         IN Evaluate(page, Tail(xpath), step)

\* ActionController._findElementByXPath: the first selected element in
\* document order, 0 (null) when there is none or the path is empty, which
\* document.evaluate rejects
_findElementByXPath(page, xpath) ==
    IF xpath = <<>> THEN 0
    ELSE LET found == Evaluate(page, xpath, {0})
         IN IF found = {} THEN 0
            ELSE CHOOSE i \in found : \A j \in found : i <= j

\* removeHighlights
removeHighlights(page) == [page EXCEPT !.container = FALSE, !.overlays = 0]

\* _highlightElement
_highlightElement(page) == [page EXCEPT !.container = TRUE, !.overlays = @ + 1]

\* _buildDomTree on a world st = [page, builder]
RECURSIVE _buildDomTree(_, _)
RECURSIVE BuildEach(_, _)
RECURSIVE TryIframe(_, _)
BuildEach(st, nodes) ==
    IF nodes = <<>> \/ st.thrown THEN st
    ELSE BuildEach(_buildDomTree(st, Head(nodes)), Tail(nodes))

\* the try block around the iframe's document: an exception raised by the
\* access to the document or below it is caught
TryIframe(st, n) ==
    IF contentDocument(st.page, n) = st.page.failAt THEN st
    ELSE [_buildDomTree(st, contentBody(st.page, n)) EXCEPT !.thrown = FALSE]

_buildDomTree(st, n) ==
    IF n = 0 \/ n = ContainerId(st.page) THEN st
    ELSE IF n = st.page.failAt THEN [st EXCEPT !.thrown = TRUE]
    ELSE IF ~_isElementAccepted(st.page, n) THEN st
    ELSE IF n # Body /\ ~_isElementVisible(st.page, n) THEN st
    ELSE LET st1 == BuildEach(st, childNodes(st.page, n))
             st2 == BuildEach(st1, shadowChildNodes(st.page, n))
             st3 == IF st2.thrown THEN st2
                    ELSE IF st.page.nodes[n].tag = "iframe"
                    THEN TryIframe(st2, n)
                    ELSE st2
             b == st3.builder
         IN IF st3.thrown THEN st3
            ELSE
            IF /\ _isInExpandedViewport(st3.page, n, b.options.viewportExpansion)
               /\ _isTopElement(st3.page, n)
               /\ _isInteractiveElement(st3.page, n)
            THEN [thrown |-> FALSE,
                  page |-> IF b.options.highlightElements
                           THEN _highlightElement(st3.page) ELSE st3.page,
                  builder |->
                     [b EXCEPT
                        !.selectorMap =
                            {e \in @ : e.index # b.highlightIndex}
                            \cup {[index |-> b.highlightIndex, node |-> n]},
                        !.highlightIndex = @ + 1]]
            ELSE st3

\* build() keeping highlightIndex and selectorMap of the call before
buildWithoutReset(st) ==
    _buildDomTree([st EXCEPT !.page = removeHighlights(@)], Body)

\* build()
build(st) ==
    _buildDomTree([st EXCEPT !.builder.highlightIndex = 0,
                             !.builder.selectorMap = {},
                             !.page = removeHighlights(@)],
                  Body)

\* the snapshot handed on: the element count and, for every index of the
\* selector map, the element, its tag and its locator as
\* getFormattedDOMString emits them
Snapshot(st) ==
    [elementCount |-> Cardinality(st.builder.selectorMap),
     entries |-> {[index |-> e.index, node |-> e.node,
                   tag |-> st.page.nodes[e.node].tag,
                   xpath |-> _getXPathTree(st.page, e.node)] :
                    e \in st.builder.selectorMap}]

(***************************************************************************)
(* Specification SpecDom: a DOMBuilder on some page, with some options;    *)
(* build() is called repeatedly on the unmutated page and the locators of  *)
(* the last snapshot are resolved by the executor.                         *)
(***************************************************************************)
MaxBuilds == 2

\* an element 20 high and 100 wide near the top of the viewport, found by
\* the hit test at its own centre
Element(tag, parent, via, self, interactive) ==
    [tag |-> tag, parent |-> parent, via |-> via, style |-> "visible",
     top |-> 100, height |-> 20, left |-> 0, width |-> 100, covered |-> FALSE,
     docHit |-> self, rootHit |-> self, interactive |-> interactive]

\* html > body > (div > button, X), X being
\*   "light":  div > (input, input),
\*   "shadow": div with a shadow root > section > button,
\*   "iframe": iframe with a document html > body > div > button;
\* the first button may be not rendered or covered, the last element of the
\* page is at lastTop
PageNodes(shape, bodyStyle, bodyInteractive, divInteractive, btnStyle,
          btnCovered, lastTop) ==
    LET html == Element("html", 0, "document", 1, FALSE)
        body == [Element("body", 1, "child", 2, bodyInteractive) EXCEPT
                    !.style = bodyStyle, !.top = 0, !.height = 600, !.width = 800]
        div == [Element("div", 2, "child", 3, divInteractive) EXCEPT
                    !.covered = btnCovered,
                    !.docHit = IF btnStyle = "none" THEN 3 ELSE 4,
                    !.rootHit = IF btnStyle = "none" THEN 3 ELSE 4]
        button == [Element("button", 3, "child", 4, TRUE) EXCEPT
                    !.style = btnStyle, !.covered = btnCovered]
        top4 == <<html, body, div, button>>
    IN IF shape = "light"
       THEN top4 \o
            <<[Element("div", 2, "child", 5, FALSE) EXCEPT
                  !.top = 130, !.docHit = 6, !.rootHit = 6],
              [Element("input", 5, "child", 6, TRUE) EXCEPT !.top = 130],
              [Element("input", 5, "child", 7, TRUE) EXCEPT !.top = lastTop]>>
       ELSE IF shape = "shadow"
       THEN top4 \o
            <<[Element("div", 2, "child", 5, FALSE) EXCEPT !.top = 130],
              [Element("section", 5, "shadow", 6, FALSE) EXCEPT
                  !.top = 130, !.docHit = 5,
                  !.rootHit = IF lastTop = 130 THEN 7 ELSE 6],
              [Element("button", 6, "child", 7, TRUE) EXCEPT
                  !.top = lastTop, !.docHit = 5]>>
       ELSE top4 \o
            <<[Element("iframe", 2, "child", 5, FALSE) EXCEPT !.top = 130],
              [Element("html", 5, "document", 6, FALSE) EXCEPT !.docHit = 5],
              [Element("body", 6, "child", 7, FALSE) EXCEPT !.docHit = 5],
              [Element("div", 7, "child", 8, FALSE) EXCEPT
                  !.docHit = 5, !.rootHit = IF lastTop = 130 THEN 9 ELSE 8,
                  !.top = 130],
              [Element("button", 8, "child", 9, TRUE) EXCEPT
                  !.top = lastTop, !.docHit = 5]>>

\* lastTop 800 puts the element 200 below the bottom of the viewport
Pages ==
    {[nodes |-> PageNodes(shape, bodyStyle, bodyInteractive, divInteractive,
                          btnStyle, btnCovered, lastTop),
      innerHeight |-> 600, innerWidth |-> 800,
      container |-> FALSE, overlays |-> 0, failAt |-> 0] :
        shape \in {"light", "shadow", "iframe"},
        bodyStyle \in {"visible", "transparent"},
        bodyInteractive \in BOOLEAN, divInteractive \in BOOLEAN,
        btnStyle \in {"visible", "none"}, btnCovered \in BOOLEAN,
        lastTop \in {130, 800}}

BuilderOptions ==
    {[highlightElements |-> h, viewportExpansion |-> v] :
        h \in BOOLEAN, v \in {0 - 1, 50}}

NoSnapshot == [elementCount |-> 0, entries |-> {}]

NoResolution == [kind |-> None]

\* n lies in a sub-document
RECURSIVE InSubDocument(_, _)
InSubDocument(page, n) ==
    IF n = 0 THEN FALSE
    ELSE IF page.nodes[n].via = "document" THEN page.nodes[n].parent # 0
    ELSE InSubDocument(page, page.nodes[n].parent)

\* the elements whose inspection may raise: those of a sub-document (its
\* root stands for the access to the document) and of shadow content
FailPoints(page) ==
    {n \in 1..Len(page.nodes) : InShadowRoot(page, n) \/ InSubDocument(page, n)}

\* the pages, with and without an element whose inspection raises
FailingPages ==
    UNION {{[p EXCEPT !.failAt = f] : f \in {0} \cup FailPoints(p)} : p \in Pages}

InitDom ==
    /\ dom \in {[page |-> p,
                 builder |-> [options |-> o, highlightIndex |-> 0,
                              selectorMap |-> {}],
                 snapshot |-> NoSnapshot, prev |-> NoSnapshot, builds |-> 0,
                 aborted |-> FALSE,
                 resolved |-> NoResolution] : p \in FailingPages, o \in BuilderOptions}
    /\ mm = IdleMM /\ added = <<>>
    /\ parseIn = IdleParse /\ parseOut = IdleParse
    /\ doc = IdleDoc /\ execIn = NoAction /\ execOut = IdleDoc
    /\ cs = IdleCs
    /\ srv = IdleSrv /\ out = <<>>
    /\ bg = IdleBg

DomUnchanged == UNCHANGED <<ctxVars, parseVars, execVars, csVars, srvVars, bgVars>>

\* domBuilder.build() is called
DomBuild ==
    /\ dom.builds < MaxBuilds
    /\ LET st == build([page |-> dom.page, builder |-> dom.builder,
                         thrown |-> FALSE])
       IN dom' = [page |-> st.page, builder |-> st.builder,
                  snapshot |-> IF st.thrown THEN NoSnapshot ELSE Snapshot(st),
                  prev |-> dom.snapshot,
                  builds |-> dom.builds + 1, aborted |-> st.thrown,
                  resolved |-> NoResolution]
    /\ DomUnchanged

\* the executor resolves the locator of an entry of the last snapshot
DomResolve ==
    /\ dom.builds > 0
    /\ \E e \in dom.snapshot.entries :
          dom' = [dom EXCEPT
                    !.resolved = [kind |-> "resolved", index |-> e.index,
                                  node |-> e.node, xpath |-> e.xpath,
                                  found |-> _findElementByXPath(dom.page, e.xpath)]]
    /\ DomUnchanged

NextDom == DomBuild \/ DomResolve

SpecDom == InitDom /\ [][NextDom]_vars

\* the elements the last build() indexed
Indexed == {e.node : e \in dom.snapshot.entries}

\* a is a proper ancestor of b, through child nodes, shadow roots and
\* sub-documents
RECURSIVE IsAncestor(_, _, _)
IsAncestor(page, a, b) ==
    IF b = 0 THEN FALSE
    ELSE LET p == page.nodes[b].parent
         IN p = a \/ IsAncestor(page, a, p)

\* C15: every indexed element is visible, inside the expanded viewport,
\* topmost at its centre and interactive, the body included.
C15_IndexedElementsQualify ==
    \A n \in Indexed :
        /\ _isElementVisible(dom.page, n)
        /\ _isInExpandedViewport(dom.page, n,
                                 dom.builder.options.viewportExpansion)
        /\ _isTopElement(dom.page, n)
        /\ _isInteractiveElement(dom.page, n)

\* C16: the indices of a snapshot are 0, 1, ..., count - 1, each given to
\* one element, and an indexed ancestor has a smaller index than an indexed
\* descendant.
C16_ContiguousPreOrder ==
    LET entries == dom.snapshot.entries
    IN /\ {e.index : e \in entries} = 0..(Cardinality(entries) - 1)
       /\ \A e1 \in entries, e2 \in entries :
             (e1.index = e2.index) => (e1 = e2)
       /\ \A e1 \in entries, e2 \in entries :
             IsAncestor(dom.page, e1.node, e2.node) => e1.index < e2.index

\* an element of the top document that is rendered visibly together with
\* its ancestors below the body, is interactive and has nothing over it
RECURSIVE VisibleChain(_, _)
VisibleChain(page, n) ==
    IF n = 0 \/ n = Body \/ n = DocumentElement THEN n = Body
    ELSE /\ page.nodes[n].via = "child"
         /\ _isElementAccepted(page, n)
         /\ _isElementVisible(page, n)
         /\ VisibleChain(page, page.nodes[n].parent)

VisibleInteractive(page, n) ==
    /\ n # Body
    /\ VisibleChain(page, n)
    /\ _isInteractiveElement(page, n)
    /\ ~page.nodes[n].covered

\* C17: with viewportExpansion = -1 the snapshot holds every visible
\* interactive element, wherever it lies relative to the viewport.
C17_AllElementsWhenUnbounded ==
    (dom.builds > 0 /\ dom.builder.options.viewportExpansion = 0 - 1) =>
        \A n \in 1..Len(dom.page.nodes) :
            VisibleInteractive(dom.page, n) => n \in Indexed

\* C18: two consecutive build() calls give the same element count and the
\* same tag and locator at every index.
C18_BuildIdempotent ==
    dom.builds >= 2 =>
        /\ dom.snapshot.elementCount = dom.prev.elementCount
        /\ {[index |-> e.index, tag |-> e.tag, xpath |-> e.xpath] :
                e \in dom.snapshot.entries}
           = {[index |-> e.index, tag |-> e.tag, xpath |-> e.xpath] :
                e \in dom.prev.entries}

\* build() has run twice with highlighting on, the overlay container of the
\* first call being in the document when the second started
C18_Witness ==
    /\ dom.builds >= 2
    /\ dom.builder.options.highlightElements
    /\ dom.page.container /\ dom.page.overlays >= 2
    /\ dom.snapshot.elementCount >= 2

\* the elements build() indexes when no inspection raises
IndexedWithoutFailure ==
    {e.node : e \in build([page |-> [dom.page EXCEPT !.failAt = 0],
                           builder |-> dom.builder,
                           thrown |-> FALSE]).builder.selectorMap}

\* the elements of the sub-document or shadow content the failing element
\* lies in
FailedBranch ==
    {n \in 1..Len(dom.page.nodes) :
        InShadowRoot(dom.page, n) \/ InSubDocument(dom.page, n)}

\* C31: when the inspection of an element of a sub-document or of shadow
\* content raises, build() returns, and its snapshot holds every
\* qualifying element outside the failed branch.
C31_TraversalFailureNotFatal ==
    (dom.builds > 0 /\ dom.page.failAt # 0) =>
        /\ ~dom.aborted
        /\ (IndexedWithoutFailure \ FailedBranch) \subseteq Indexed

\* C19: resolving the locator of an indexed element yields that element or
\* nothing, never another element.
C19_LocatorRefindsElement ==
    dom.resolved # NoResolution =>
        dom.resolved.found \in {0, dom.resolved.node}

\* the locator of an element under a shadow root, cut at the shadow root,
\* has been resolved and found nothing
C19_Witness ==
    /\ dom.resolved # NoResolution
    /\ InShadowRoot(dom.page, dom.resolved.node)
    /\ dom.resolved.xpath # <<>>
    /\ dom.resolved.found = 0
(***************************************************************************)
(* Specification SpecQuiet: the content script and its DOM builder on a    *)
(* document the page does not mutate, with no message arriving.  The       *)
(* observer watches the child lists of the body's subtree, the builder's   *)
(* overlay container included; cs.records is what is queued for the        *)
(* observer's callback: "none", "minor" (only removals) or "significant"   *)
(* (nodes were added).  The callback runs before any timer; an expired     *)
(* timer's callback runs.  build() is a function of the document and the   *)
(* options, and two documents occur: the page as loaded and the page as    *)
(* the builder left it; dom.first and dom.later hold what build() makes of *)
(* them.                                                                   *)
(***************************************************************************)
\* the builder's world on page p with options o, before the first build()
BuilderWorld(p, o) ==
    [page |-> p,
     builder |-> [options |-> o, highlightIndex |-> 0, selectorMap |-> {}],
     thrown |-> FALSE]

\* build() called on the world an earlier call left
Rebuild(st) == build([st EXCEPT !.thrown = FALSE])

InitQuiet ==
    /\ cs = [isProcessing |-> FALSE, pendingActionQueue |-> <<>>,
             executing |-> <<>>, settleTimers |-> 0,
             domUpdateTimeout |-> FALSE, domUpdateDue |-> 0, now |-> 0,
             initTimer |-> TRUE, sent |-> <<>>,
             built |-> <<>>, last |-> NoTrigger, records |-> "none"]
    /\ dom \in {[page |-> p,
                 builder |-> BuilderWorld(p, o).builder,
                 snapshot |-> NoSnapshot, prev |-> NoSnapshot, builds |-> 0,
                 aborted |-> FALSE, resolved |-> NoResolution,
                 first |-> build(BuilderWorld(p, o)),
                 later |-> Rebuild(build(BuilderWorld(p, o)))] :
                    p \in FailingPages, o \in BuilderOptions}
    /\ bg = IdleBg
    /\ mm = IdleMM /\ added = <<>>
    /\ parseIn = IdleParse /\ parseOut = IdleParse
    /\ doc = IdleDoc /\ execIn = NoAction /\ execOut = IdleDoc
    /\ srv = IdleSrv /\ out = <<>>

\* the mutation records a build() leaves: removeHighlights removes the
\* container of the build before, _highlightElement appends a container to
\* the body and the overlays to it
MutationRecords(before, after) ==
    IF after.container THEN "significant"
    ELSE IF before.container THEN "minor"
    ELSE "none"

\* collectAndSendDOM run on the document: c is the content script as the
\* trigger leaves it
Collect(c) ==
    IF c.isProcessing
    THEN cs' = c /\ dom' = dom
    ELSE LET st == IF dom.builds = 0 THEN dom.first ELSE dom.later
             made == MutationRecords(dom.page, st.page)
         IN /\ cs' = [collectAndSendDOM(c, st.thrown) EXCEPT
                         !.records = IF "significant" \in {@, made}
                                     THEN "significant"
                                     ELSE IF "minor" \in {@, made}
                                     THEN "minor" ELSE "none"]
            /\ dom' = [dom EXCEPT
                         !.page = st.page, !.builder = st.builder,
                         !.snapshot = IF st.thrown THEN NoSnapshot
                                      ELSE Snapshot(st),
                         !.prev = dom.snapshot, !.builds = 1,
                         !.aborted = st.thrown]

QuietUnchanged == UNCHANGED <<ctxVars, parseVars, execVars, srvVars, bgVars>>

\* the timer of the first collection expires
QuietInitTimer ==
    /\ cs.initTimer /\ cs.records = "none"
    /\ Collect([Triggered("init") EXCEPT !.initTimer = FALSE])
    /\ QuietUnchanged

\* the observer's callback gets the queued records
QuietObserver ==
    /\ cs.records # "none"
    /\ cs' = onMutations([Fresh(cs) EXCEPT !.records = "none"],
                         cs.records = "significant")
    /\ dom' = dom
    /\ QuietUnchanged

\* the debounce timer expires
QuietDebounceTimer ==
    /\ cs.domUpdateTimeout /\ cs.records = "none"
    /\ Collect([Triggered("debounce") EXCEPT !.domUpdateTimeout = FALSE])
    /\ QuietUnchanged

NextQuiet ==
    \/ QuietInitTimer
    \/ QuietObserver
    \/ QuietDebounceTimer

SpecQuiet ==
    /\ InitQuiet /\ [][NextQuiet]_vars
    /\ WF_vars(QuietInitTimer)
    /\ WF_vars(QuietObserver)
    /\ WF_vars(QuietDebounceTimer)

\* dom.later is what build() makes of the document of every later call
LaterIsRebuild ==
    dom.builds > 0 =>
        dom.later = Rebuild([page |-> dom.page, builder |-> dom.builder,
                             thrown |-> FALSE])

\* no collection is scheduled and no record awaits the observer
Quiescent ==
    /\ ~cs.initTimer /\ ~cs.domUpdateTimeout
    /\ cs.records = "none"

\* C32: on a document the page leaves alone, with no message arriving, the
\* content script eventually stops running build() and sending domState,
\* with highlighting enabled as well.
C32_ObservationQuiesces ==
    <>[]Quiescent
====
